---- MODULE Spec2Model ----
(***************************************************************************)
(* A model of VlaPy's phase-space stepping engine: the set-up of a         *)
(* timestep from the configuration (vlapy/core/step.py and the factories   *)
(* of vlapy/core/vlasov.py, field.py, vlasov_poisson.py, collisions.py),   *)
(* the operator-split integrators, and the Fokker-Planck collision step    *)
(* with its two tridiagonal solvers.                                       *)
(*                                                                         *)
(* Numbers.  The integrators' coefficients are decimal literals of up to   *)
(* 36 decimals; they are kept exactly, as fixed-point numbers of seven     *)
(* limbs <<i, l1, .., l6>> of base 10^6 standing for i + l1/10^6 + ... +   *)
(* l6/10^36.  The arrays of the collision step are rationals <<n, d>>.     *)
(* Floating-point rounding is not modelled.                                *)
(*                                                                         *)
(* Data flow.  In the set-up/integrator part, a distribution function or a *)
(* field is named by the place that produced it: <<n, k>> is the value     *)
(* returned by the k-th operation of timestep n, <<n, 0>> the value the    *)
(* timestep was called with.                                               *)
(***************************************************************************)
EXTENDS Integers, Sequences, FiniteSets, TLC

VARIABLES
  cfg,           \* all_params: the configuration of the run
  phase,         \* "config", "building", "ready", "failed", "crashed"
  err,           \* the exception raised, "none" if none
  built,         \* the closures built at set-up, by function name
  entry,         \* the set-up entry point used: "get_timestep", "closures" or "factories"
  temp_storage,  \* the state carried between timesteps: e, f, i
  call,          \* the latest call of vp_step: its arguments and what it returned
  trace,         \* the operations executed by the latest timestep, in order
  heap,          \* array storage of the solver part: storage id -> 2D array
  args,          \* the storage ids of the arrays a, b, c, f handed to the solvers
  calls,         \* the solver calls made so far, each with what it saw and left
  inp,           \* the arguments of the function under call, in the parts that
                 \* check one function on its own
  out            \* the latest call of such a function and what it returned

vars == <<cfg, phase, err, built, entry, temp_storage, call, trace, heap, args, calls, inp, out>>

solver_vars == <<heap, args, calls>>

fn_vars == <<inp, out>>

step_vars == <<cfg, phase, err, built, entry, temp_storage, call, trace>>

\* ------------------------------------------------------------------ bounds
MaxDt == 2
MaxSteps == 2

\* -------------------------------------------------------- fixed-point numbers
Base == 10^6

Zero == <<0, 0, 0, 0, 0, 0, 0>>

One == <<1, 0, 0, 0, 0, 0, 0>>

\* the canonical form: fractional limbs in 0..Base-1, the sign in limb 1
Norm(x) ==
  LET k7 == x[7] \div Base
      k6 == (x[6] + k7) \div Base
      k5 == (x[5] + k6) \div Base
      k4 == (x[4] + k5) \div Base
      k3 == (x[3] + k4) \div Base
      k2 == (x[2] + k3) \div Base
  IN  <<x[1] + k2, (x[2] + k3) % Base, (x[3] + k4) % Base, (x[4] + k5) % Base,
        (x[5] + k6) % Base, (x[6] + k7) % Base, x[7] % Base>>

IntToNum(n) == <<n, 0, 0, 0, 0, 0, 0>>

Plus(x, y) ==
  Norm(<<x[1] + y[1], x[2] + y[2], x[3] + y[3], x[4] + y[4], x[5] + y[5],
         x[6] + y[6], x[7] + y[7]>>)

Minus(x, y) ==
  Norm(<<x[1] - y[1], x[2] - y[2], x[3] - y[3], x[4] - y[4], x[5] - y[5],
         x[6] - y[6], x[7] - y[7]>>)

\* n * x for an integer 0 <= n <= 8
Scale(n, x) ==
  Norm(<<n * x[1], n * x[2], n * x[3], n * x[4], n * x[5], n * x[6], n * x[7]>>)

\* 0.5 * x for a canonical x, exact when x is an even multiple of 10^-36
Half(x) ==
  LET r1 == x[1] % 2
      r2 == (r1 * Base + x[2]) % 2
      r3 == (r2 * Base + x[3]) % 2
      r4 == (r3 * Base + x[4]) % 2
      r5 == (r4 * Base + x[5]) % 2
      r6 == (r5 * Base + x[6]) % 2
  IN  <<x[1] \div 2, (r1 * Base + x[2]) \div 2, (r2 * Base + x[3]) \div 2,
        (r3 * Base + x[4]) \div 2, (r4 * Base + x[5]) \div 2,
        (r5 * Base + x[6]) \div 2, (r6 * Base + x[7]) \div 2>>

\* x * d ^ p for the integer timestep d
RECURSIVE TimesPow(_, _, _)
TimesPow(x, d, p) == IF p = 0 THEN Norm(x) ELSE TimesPow(Scale(d, x), d, p - 1)

\* ------------------------------------------------- the integrators' literals
\* vlasov_poisson.py full_pefrl_ps_step
xsi == <<0, 178617, 895844, 809100, 0, 0, 0>>

lambd == <<0, -212341, -831062, -605400, 0, 0, 0>>

chi == <<0, -66264, -582669, -818490, 0, 0, 0>>

\* vlasov_poisson.py get_6th_order_integrator
a1 == <<0, 168735, 950563, 437422, 448196, 0, 0>>

a2 == <<0, 377851, 589220, 928303, 880766, 0, 0>>

a3 == <<0, -93175, -79568, -731452, -657924, 0, 0>>

b1 == <<0, 49086, 460976, 116245, 491441, 0, 0>>

b2 == <<0, 264177, 609888, 976700, 200146, 0, 0>>

b3 == <<0, 186735, 929134, 907054, 308413, 0, 0>>

c1 == <<0, -69, -728715, -55305, -84099, 0, 0>>

c2 == <<0, -625, -704827, -430047, -189169, 0, 0>>

c3 == <<0, -2213, -85124, -45325, -561636, 0, 0>>

d2 == <<0, -2, -916600, -457689, -847816, -445691, 0>>

d3 == <<0, 30, 484802, 617000, 387886, 807230, 0>>

e3 == <<0, 0, 498554, 938787, 506812, 159398, 800000>>

\* ------------------------------------------------------ calls of the closures
\* The running state of one call of an integrator: the current f and e (by
\* the place that produced them), the operations executed so far, and the
\* exception that ended the call, if any.  n is the timestep's number.
StartCall(n, e_in, f_in) ==
  [n |-> n, e |-> e_in, f |-> f_in, tr |-> <<>>, err |-> "none"]

NoId == <<-1, -1>>

Entry(op, fn, f_arg, e_arg, dur, tdrv) ==
  [op |-> op, fn |-> fn, f |-> f_arg, e |-> e_arg, dt |-> dur, t |-> tdrv]

\* vdfdx(f, dt): every spatial-advection stepper takes exactly (f, dt).  The
\* call passes the current f, then the arguments extra, then the duration.
CallVdfdx(s, fn, extra, dur) ==
  IF s.err # "none" THEN s
  ELSE IF 1 + Len(extra) + 1 # 2 THEN [s EXCEPT !.err = "TypeError"]
  ELSE [s EXCEPT !.tr = Append(@, Entry("vdfdx", fn, s.f, NoId, dur, Zero)),
                 !.f = <<s.n, Len(s.tr) + 1>>]

\* edfdv(f, e, dt): every velocity-advection stepper takes exactly (f, e, dt).
\* The call passes the current f, then the arguments extra, then the current
\* e and the duration.
CallEdfdv(s, fn, extra, dur) ==
  IF s.err # "none" THEN s
  ELSE IF 1 + Len(extra) + 2 # 3 THEN [s EXCEPT !.err = "TypeError"]
  ELSE [s EXCEPT !.tr = Append(@, Entry("edfdv", fn, s.f, s.e, dur, Zero)),
                 !.f = <<s.n, Len(s.tr) + 1>>]

\* e = field_solve(driver_function(tdrv), f=f): the total field of the
\* current f and the driver evaluated at time tdrv
CallFieldSolve(s, fn, tdrv) ==
  IF s.err # "none" THEN s
  ELSE [s EXCEPT !.tr = Append(@, Entry("field_solve", fn, s.f, NoId, Zero, tdrv)),
                 !.e = <<s.n, Len(s.tr) + 1>>]

\* ----------------------------------------------------------- the integrators
\* b is the record of closures built at set-up, dt the (integer) timestep,
\* s0 the call's e and f, t the time the step is called at.

\* (mutant) the order of the docstring: drift dt/2, solve, kick dt, drift dt/2
LeapfrogVP_docstring(b, dt, s0, t) ==
  LET s1 == CallVdfdx(s0, b.vdfdx, <<>>, Half(IntToNum(dt)))
      s2 == CallFieldSolve(s1, b.field_solve, Plus(t, IntToNum(dt)))
      s3 == CallEdfdv(s2, b.edfdv, <<>>, IntToNum(dt))
      s4 == CallVdfdx(s3, b.vdfdx, <<>>, Half(IntToNum(dt)))
  IN  s4

\* vlasov_poisson.py full_leapfrog_ps_step
LeapfrogVP(b, dt, s0, t) ==
  LET s1 == CallEdfdv(s0, b.edfdv, <<>>, Half(IntToNum(dt)))
      s2 == CallVdfdx(s1, b.vdfdx, <<>>, IntToNum(dt))
      s3 == CallFieldSolve(s2, b.field_solve, Plus(t, IntToNum(dt)))
      s4 == CallEdfdv(s3, b.edfdv, <<>>, Half(IntToNum(dt)))
  IN  s4

\* step.py full_leapfrog_ps_step
LeapfrogStep(b, dt, s0, t) ==
  LET s1 == CallEdfdv(s0, b.edfdv, <<>>, Half(IntToNum(dt)))
      s2 == CallVdfdx(s1, b.vdfdx, <<>>, IntToNum(dt))
      s3 == CallFieldSolve(s2, b.field_solve, Plus(t, IntToNum(dt)))
      s4 == CallEdfdv(s3, b.edfdv, <<>>, Half(IntToNum(dt)))
  IN  s4

PefrlDt1(dt) == Scale(dt, xsi)

PefrlDt2(dt) == Scale(dt, chi)

\* (mutant) the factor 2 dropped
PefrlDt3_slip(dt) == Scale(dt, Minus(One, Plus(chi, xsi)))

PefrlDt3(dt) == Scale(dt, Minus(One, Scale(2, Plus(chi, xsi))))

\* (mutant) dt4 taken from dt1
PefrlDt4_slip(dt) == PefrlDt1(dt)

PefrlDt4(dt) == PefrlDt2(dt)

PefrlDt5(dt) == PefrlDt1(dt)

PefrlVdt1(dt) == Scale(dt, Half(Minus(One, Scale(2, lambd))))

PefrlVdt2(dt) == Scale(dt, lambd)

PefrlVdt3(dt) == PefrlVdt2(dt)

PefrlVdt4(dt) == PefrlVdt1(dt)

\* the driver times t + dt1, t + dt1 + dt2, ... of the PEFRL field solves
PefrlT1(t, dt) == Plus(t, PefrlDt1(dt))

PefrlT2(t, dt) == Plus(PefrlT1(t, dt), PefrlDt2(dt))

PefrlT3(t, dt) == Plus(PefrlT2(t, dt), PefrlDt3(dt))

PefrlT4(t, dt) == Plus(PefrlT3(t, dt), PefrlDt4(dt))

PefrlT5(t, dt) == Plus(PefrlT4(t, dt), PefrlDt5(dt))

\* vlasov_poisson.py full_pefrl_ps_step
PefrlVP(b, dt, s0, t) ==
  LET x1 == CallVdfdx(s0, b.vdfdx, <<>>, PefrlDt1(dt))
      f1 == CallFieldSolve(x1, b.field_solve, PefrlT1(t, dt))
      v1 == CallEdfdv(f1, b.edfdv, <<>>, PefrlVdt1(dt))
      x2 == CallVdfdx(v1, b.vdfdx, <<>>, PefrlDt2(dt))
      f2 == CallFieldSolve(x2, b.field_solve, PefrlT2(t, dt))
      v2 == CallEdfdv(f2, b.edfdv, <<>>, PefrlVdt2(dt))
      x3 == CallVdfdx(v2, b.vdfdx, <<>>, PefrlDt3(dt))
      f3 == CallFieldSolve(x3, b.field_solve, PefrlT3(t, dt))
      v3 == CallEdfdv(f3, b.edfdv, <<>>, PefrlVdt3(dt))
      x4 == CallVdfdx(v3, b.vdfdx, <<>>, PefrlDt4(dt))
      f4 == CallFieldSolve(x4, b.field_solve, PefrlT4(t, dt))
      v4 == CallEdfdv(f4, b.edfdv, <<>>, PefrlVdt4(dt))
      x5 == CallVdfdx(v4, b.vdfdx, <<>>, PefrlDt5(dt))
      f5 == CallFieldSolve(x5, b.field_solve, PefrlT5(t, dt))
  IN  f5

\* step.py full_pefrl_ps_step: v1, v2 and v3 call edfdv(f, kv, e, dt) and x2
\* calls vdfdx(f, kx, v, dt)
PefrlStep(b, dt, s0, t) ==
  LET x1 == CallVdfdx(s0, b.vdfdx, <<>>, PefrlDt1(dt))
      f1 == CallFieldSolve(x1, b.field_solve, PefrlT1(t, dt))
      v1 == CallEdfdv(f1, b.edfdv, <<"kv">>, PefrlVdt1(dt))
      x2 == CallVdfdx(v1, b.vdfdx, <<"kx", "v">>, PefrlDt2(dt))
      f2 == CallFieldSolve(x2, b.field_solve, PefrlT2(t, dt))
      v2 == CallEdfdv(f2, b.edfdv, <<"kv">>, PefrlVdt2(dt))
      x3 == CallVdfdx(v2, b.vdfdx, <<>>, PefrlDt3(dt))
      f3 == CallFieldSolve(x3, b.field_solve, PefrlT3(t, dt))
      v3 == CallEdfdv(f3, b.edfdv, <<"kv">>, PefrlVdt2(dt))
      x4 == CallVdfdx(v3, b.vdfdx, <<>>, PefrlDt4(dt))
      f4 == CallFieldSolve(x4, b.field_solve, PefrlT4(t, dt))
      v4 == CallEdfdv(f4, b.edfdv, <<>>, PefrlVdt1(dt))
      x5 == CallVdfdx(v4, b.vdfdx, <<>>, PefrlDt5(dt))
      f5 == CallFieldSolve(x5, b.field_solve, PefrlT5(t, dt))
  IN  f5

\* D1, D2, D3 of sixth_order_step, each already multiplied by dt
SixthD1(dt) == Scale(dt, Plus(b1, Scale(2, TimesPow(c1, dt, 2))))

SixthD2(dt) ==
  Scale(dt, Plus(Plus(b2, Scale(2, TimesPow(c2, dt, 2))),
                 Scale(4, TimesPow(d2, dt, 4))))

SixthD3(dt) ==
  Scale(dt, Minus(Plus(Plus(b3, Scale(2, TimesPow(c3, dt, 2))),
                       Scale(4, TimesPow(d3, dt, 4))),
                  Scale(8, TimesPow(e3, dt, 6))))

\* (mutant) the last kick takes D2
SixthOrderVP_asym(b, dt, s0, t) ==
  LET v1 == CallEdfdv(s0, b.edfdv, <<>>, SixthD1(dt))
      x1 == CallVdfdx(v1, b.vdfdx, <<>>, Scale(dt, a1))
      f1 == CallFieldSolve(x1, b.field_solve, Plus(t, Scale(dt, a1)))
      v2 == CallEdfdv(f1, b.edfdv, <<>>, SixthD2(dt))
      x2 == CallVdfdx(v2, b.vdfdx, <<>>, Scale(dt, a2))
      f2 == CallFieldSolve(x2, b.field_solve, Plus(t, Scale(dt, a2)))
      v3 == CallEdfdv(f2, b.edfdv, <<>>, SixthD3(dt))
      x3 == CallVdfdx(v3, b.vdfdx, <<>>, Scale(dt, a3))
      f3 == CallFieldSolve(x3, b.field_solve, Plus(t, Scale(dt, a3)))
      v4 == CallEdfdv(f3, b.edfdv, <<>>, SixthD3(dt))
      x4 == CallVdfdx(v4, b.vdfdx, <<>>, Scale(dt, a2))
      f4 == CallFieldSolve(x4, b.field_solve, Plus(t, Scale(dt, a2)))
      v5 == CallEdfdv(f4, b.edfdv, <<>>, SixthD2(dt))
      x5 == CallVdfdx(v5, b.vdfdx, <<>>, Scale(dt, a1))
      f5 == CallFieldSolve(x5, b.field_solve, Plus(t, Scale(dt, a1)))
      v6 == CallEdfdv(f5, b.edfdv, <<>>, SixthD2(dt))
  IN  v6

\* vlasov_poisson.py sixth_order_step: every field solve takes the driver at
\* t plus the duration of the one spatial sub-step before it
SixthOrderVP(b, dt, s0, t) ==
  LET v1 == CallEdfdv(s0, b.edfdv, <<>>, SixthD1(dt))
      x1 == CallVdfdx(v1, b.vdfdx, <<>>, Scale(dt, a1))
      f1 == CallFieldSolve(x1, b.field_solve, Plus(t, Scale(dt, a1)))
      v2 == CallEdfdv(f1, b.edfdv, <<>>, SixthD2(dt))
      x2 == CallVdfdx(v2, b.vdfdx, <<>>, Scale(dt, a2))
      f2 == CallFieldSolve(x2, b.field_solve, Plus(t, Scale(dt, a2)))
      v3 == CallEdfdv(f2, b.edfdv, <<>>, SixthD3(dt))
      x3 == CallVdfdx(v3, b.vdfdx, <<>>, Scale(dt, a3))
      f3 == CallFieldSolve(x3, b.field_solve, Plus(t, Scale(dt, a3)))
      v4 == CallEdfdv(f3, b.edfdv, <<>>, SixthD3(dt))
      x4 == CallVdfdx(v4, b.vdfdx, <<>>, Scale(dt, a2))
      f4 == CallFieldSolve(x4, b.field_solve, Plus(t, Scale(dt, a2)))
      v5 == CallEdfdv(f4, b.edfdv, <<>>, SixthD2(dt))
      x5 == CallVdfdx(v5, b.vdfdx, <<>>, Scale(dt, a1))
      f5 == CallFieldSolve(x5, b.field_solve, Plus(t, Scale(dt, a1)))
      v6 == CallEdfdv(f5, b.edfdv, <<>>, SixthD1(dt))
  IN  v6

\* the call vp_step(e=e, f=f, t=t) of the closure built at set-up
VpStep(b, dt, s0, t) ==
  CASE b.vp_step = "vlasov_poisson.full_leapfrog_ps_step" -> LeapfrogVP(b, dt, s0, t)
    [] b.vp_step = "vlasov_poisson.full_pefrl_ps_step" -> PefrlVP(b, dt, s0, t)
    [] b.vp_step = "vlasov_poisson.sixth_order_step" -> SixthOrderVP(b, dt, s0, t)
    [] b.vp_step = "step.full_leapfrog_ps_step" -> LeapfrogStep(b, dt, s0, t)
    [] b.vp_step = "step.full_pefrl_ps_step" -> PefrlStep(b, dt, s0, t)

\* ------------------------------------------------------------- configuration
\* The names a configuration may hold: the documented ones and one that no
\* version of the code knows.
TimeNames == {"leapfrog", "pefrl", "h-sixth", "rk4"}

VdfdxNames == {"exponential", "sl", "upwind"}

EdfdvNames == {"exponential", "cd2", "sl", "lw5", "upwind"}

PoissonNames == {"spectral", "multigrid"}

FpTypeNames == {"lb", "dg", "none", "krook"}

FpSolverNames == {"naive", "batched_tridiagonal", "lu"}

Configs ==
  [time : TimeNames, vdfdx : VdfdxNames, edfdv : EdfdvNames,
   poisson : PoissonNames, fptype : FpTypeNames, fpsolver : FpSolverNames,
   nu : {0, 1}, dt : 1..MaxDt]

NoneBuilt ==
  [vdfdx |-> "none", edfdv |-> "none", field_solve |-> "none",
   vp_step |-> "none", solver |-> "none", matrix_maker |-> "none",
   raised |-> "none"]

\* The result of a factory: the closure's name, or the exception raised
Ok(fn) == [fn |-> fn, err |-> "none"]

Raise(x) == [fn |-> "none", err |-> x]

\* ------------------------------------------------- factories of vlasov.py etc.
\* vlasov.py get_vdfdx
get_vdfdx(name) ==
  IF name = "exponential" THEN Ok("step_vdfdx_exponential")
  ELSE IF name = "sl" THEN Ok("update_spatial_adv_sl")
  ELSE Raise("NotImplementedError")

\* vlasov.py get_edfdv
get_edfdv(name) ==
  IF name = "exponential" THEN Ok("step_edfdv_exponential")
  ELSE IF name = "cd2" THEN Ok("step_edfdv_center_difference")
  ELSE IF name = "sl" THEN Ok("update_velocity_adv_sl")
  ELSE Raise("NotImplementedError")

\* np.zeros_like(a) of a flat tuple a: an array with the one axis of a
zeros_like(a) == [shape |-> <<Len(a)>>]

\* arr[index] = ...: an index with more entries than arr has axes raises
\* IndexError
SetItem(arr, index) ==
  IF Len(index) > Len(arr.shape) THEN Raise("IndexError") ELSE Ok("none")

\* vlasov/linearized_weno5.py get_beta_plus_matrices: beta_inds =
\* np.zeros_like((2, 3, 2, 3, 2)), then beta_inds[0, :] = ..., and a return
\* that calls get_beta_plus_0_matrices, a name the module does not define
get_beta_plus_matrices ==
  IF SetItem(zeros_like(<<2, 3, 2, 3, 2>>), <<0, "all">>).err # "none"
    THEN SetItem(zeros_like(<<2, 3, 2, 3, 2>>), <<0, "all">>)
    ELSE Raise("NameError")

\* vlasov/linearized_weno5.py get_edfdv_linearized_weno5: the matrices first,
\* then the closure update_edfdv_lw5
get_edfdv_linearized_weno5 ==
  IF get_beta_plus_matrices.err # "none" THEN get_beta_plus_matrices
  ELSE Ok("update_edfdv_lw5")

\* vlasov/vlasov.py get_edfdv
vlasov_vlasov_get_edfdv(name) ==
  IF name = "exponential" THEN Ok("step_edfdv_exponential")
  ELSE IF name = "cd2" THEN Ok("step_edfdv_center_difference")
  ELSE IF name = "lw5" THEN get_edfdv_linearized_weno5
  ELSE Raise("NotImplementedError")

\* field.py get_field_solver
get_field_solver(name) ==
  IF name = "spectral" THEN Ok("solve_total_electric_field")
  ELSE Raise("NotImplementedError")

\* vlasov_poisson.py get_time_integrator
get_time_integrator(name) ==
  IF name = "leapfrog" THEN Ok("vlasov_poisson.full_leapfrog_ps_step")
  ELSE IF name = "pefrl" THEN Ok("vlasov_poisson.full_pefrl_ps_step")
  ELSE IF name = "h-sixth" THEN Ok("vlasov_poisson.sixth_order_step")
  ELSE Raise("NotImplementedError")

\* collisions.py get_matrix_solver
get_matrix_solver(name) ==
  IF name = "naive" THEN Ok("_solver_")
  ELSE IF name = "batched_tridiagonal" THEN Ok("_batched_tridiag_solver_")
  ELSE Raise("NotImplementedError")

\* collisions.py get_batched_array_maker
get_batched_array_maker(name) ==
  IF name = "lb" THEN Ok("make_philharmonic_arrays_for_matrix")
  ELSE IF name = "dg" THEN Ok("make_dougherty_arrays_for_matrix")
  ELSE Raise("NotImplementedError")

\* ------------------------------------------------------- set-up of step.py
\* the parameters of field.py get_field_solver(stuff_for_time_loop,
\* field_solver_implementation="spectral")
get_field_solver_parameters == {"stuff_for_time_loop", "field_solver_implementation"}

\* a call that passes a keyword the function has no parameter for raises
\* TypeError before the function runs
AcceptsKeywords(parameters, keywords) == keywords \subseteq parameters

\* step.py get_full_leapfrog_step and get_full_pefrl_step over the steppers of
\* get_vdfdx_exponential and get_edfdv_exponential and a spectral field solver
get_full_step(time) ==
  [NoneBuilt EXCEPT !.vdfdx = "step_vdfdx_exponential",
                    !.edfdv = "step_edfdv_exponential",
                    !.field_solve = "solve_total_electric_field",
                    !.vp_step = IF time = "leapfrog" THEN "step.full_leapfrog_ps_step"
                                ELSE "step.full_pefrl_ps_step"]

\* step.py get_vlasov_poisson_step: the closures it builds, in the order it
\* builds them, up to the first exception.  The field solver is asked for as
\* field.get_field_solver(dv=..., one_over_kx=...).
get_vlasov_poisson_step(c) ==
  IF c.vdfdx # "exponential" THEN [NoneBuilt EXCEPT !.raised = "NotImplementedError"]
  ELSE IF c.edfdv # "exponential" THEN [NoneBuilt EXCEPT !.raised = "NotImplementedError"]
  ELSE IF c.poisson # "spectral" THEN [NoneBuilt EXCEPT !.raised = "NotImplementedError"]
  ELSE IF ~AcceptsKeywords(get_field_solver_parameters, {"dv", "one_over_kx"})
    THEN [NoneBuilt EXCEPT !.raised = "TypeError"]
  ELSE IF c.time \in {"leapfrog", "pefrl"} THEN get_full_step(c.time)
  ELSE [NoneBuilt EXCEPT !.raised = "NotImplementedError"]

\* step.py get_collision_step: the solver, then the array maker; nu is handed
\* to the array maker and is not looked at
get_collision_step(c, b) ==
  LET sv == get_matrix_solver(c.fpsolver)
      mk == get_batched_array_maker(c.fptype)
  IN  IF sv.err # "none" THEN [NoneBuilt EXCEPT !.raised = sv.err]
      ELSE IF mk.err # "none" THEN [NoneBuilt EXCEPT !.raised = mk.err]
      ELSE [b EXCEPT !.solver = sv.fn, !.matrix_maker = mk.fn]

\* step.py get_timestep: vp_step, then fp_step, then storage_step.  The field
\* "raised" of the result holds the exception that ended it, if any.
get_timestep(c) ==
  LET vp == get_vlasov_poisson_step(c)
  IN  IF vp.raised # "none" THEN vp ELSE get_collision_step(c, vp)

\* the closures step.py timestep is made of, built by calling the factories
\* of step.py themselves: vp_step by get_full_leapfrog_step or
\* get_full_pefrl_step, fp_step by get_collision_step
get_step_closures(c) == get_collision_step(c, get_full_step(c.time))

\* ------------------------------------------------------------- the timestep
\* step.py take_collision_step: the three diagonals are assembled from f, then
\* the solver is called on them and f
take_collision_step(s, b) ==
  LET k == Len(s.tr)
  IN  [s EXCEPT !.tr = @ \o <<Entry("make_arrays", b.matrix_maker, s.f, NoId, Zero, Zero),
                             Entry("solve", b.solver, s.f, NoId, Zero, Zero)>>,
                !.f = <<s.n, k + 2>>]

\* step.py storage_step(temp_health_storage, e, de, f, i)
storage_step(s, i) ==
  [s EXCEPT !.tr = Append(@, Entry("storage_step", "storage_step", s.f, s.e,
                                   Zero, IntToNum(i)))]

\* step.py timestep: temp_storage["e"] = e, then temp_storage["f"] = f
write_back(s) ==
  [s EXCEPT !.tr = @ \o <<Entry("write_e", "temp_storage", NoId, s.e, Zero, Zero),
                            Entry("write_f", "temp_storage", s.f, NoId, Zero, Zero)>>]

\* outer_loop.py get_everything_ready_for_outer_loop: what the e and f a
\* run starts from are made by, "e": np.zeros(x.size) and f =
\* initializers.initialize_distribution(...)
get_everything_ready_for_outer_loop ==
  [e |-> "np.zeros", f |-> "initialize_distribution"]

\* t = temp_storage["time_batch"][i], of the time axis dt * arange(nt)
TimeAt(i, dt) == IntToNum(i * dt)

Init ==
  /\ cfg \in Configs
  /\ phase = "config"
  /\ err = "none"
  /\ built = NoneBuilt
  /\ entry = "none"
  /\ temp_storage = [e |-> <<0, 0>>, f |-> <<0, 0>>, i |-> 0]
  /\ call = [e |-> NoId, f |-> NoId, t |-> Zero, ret_e |-> NoId, ret_f |-> NoId]
  /\ trace = <<>>
  /\ heap = <<>>
  /\ args = [a |-> 0, b |-> 0, c |-> 0, f |-> 0]
  /\ calls = <<>>
  /\ inp = [kind |-> "none"]
  /\ out = [fn |-> "none"]

\* step.py get_timestep(all_params, stuff_for_time_loop)
GetTimestep ==
  /\ phase = "config"
  /\ LET r == get_timestep(cfg)
     IN  /\ phase' = IF r.raised = "none" THEN "ready" ELSE "failed"
         /\ err' = r.raised
         /\ built' = IF r.raised = "none" THEN r ELSE NoneBuilt
  /\ entry' = "get_timestep"
  /\ UNCHANGED <<cfg, temp_storage, call, trace>>
  /\ UNCHANGED <<solver_vars, fn_vars>>

\* The closures of a timestep built without get_vlasov_poisson_step: the
\* caller picks get_full_leapfrog_step or get_full_pefrl_step and calls
\* get_collision_step
GetStepClosures ==
  /\ phase = "config"
  /\ cfg.time \in {"leapfrog", "pefrl"}
  /\ cfg.vdfdx = "exponential"
  /\ cfg.edfdv = "exponential"
  /\ cfg.poisson = "spectral"
  /\ LET r == get_step_closures(cfg)
     IN  /\ phase' = IF r.raised = "none" THEN "ready" ELSE "failed"
         /\ err' = r.raised
         /\ built' = IF r.raised = "none" THEN r ELSE NoneBuilt
  /\ entry' = "closures"
  /\ UNCHANGED <<cfg, temp_storage, call, trace>>
  /\ UNCHANGED <<solver_vars, fn_vars>>

\* A caller that assembles the step from the factories: one factory per action
Factory(field, r) ==
  /\ phase \in {"config", "building"}
  /\ entry \in {"none", "factories"}
  /\ built[field] = "none"
  /\ entry' = "factories"
  /\ err' = r.err
  /\ IF r.err = "none"
       THEN /\ built' = [built EXCEPT ![field] = r.fn]
            /\ phase' = IF field = "vp_step" THEN "ready" ELSE "building"
       ELSE /\ built' = built
            /\ phase' = "failed"
  /\ UNCHANGED <<cfg, temp_storage, call, trace>>
  /\ UNCHANGED <<solver_vars, fn_vars>>

GetVdfdx == Factory("vdfdx", get_vdfdx(cfg.vdfdx))

GetEdfdv == Factory("edfdv", get_edfdv(cfg.edfdv))

\* the same request answered by get_edfdv of vlasov/vlasov.py
GetEdfdvOfPackage == Factory("edfdv", vlasov_vlasov_get_edfdv(cfg.edfdv))

GetFieldSolver == Factory("field_solve", get_field_solver(cfg.poisson))

GetTimeIntegrator ==
  /\ built.vdfdx # "none"
  /\ built.edfdv # "none"
  /\ built.field_solve # "none"
  /\ Factory("vp_step", get_time_integrator(cfg.time))

\* (mutant) the diagnostics are recorded from the integrator's f, before the
\* collision step
AfterVpStep_storage_first(s0, s1, t, i) ==
  IF s1.err # "none"
    THEN /\ phase' = "crashed"
         /\ err' = s1.err
         /\ trace' = s1.tr
         /\ call' = [e |-> s0.e, f |-> s0.f, t |-> t, ret_e |-> NoId, ret_f |-> NoId]
         /\ UNCHANGED temp_storage
    ELSE /\ trace' = write_back(take_collision_step(storage_step(s1, i), built)).tr
         /\ call' = [e |-> s0.e, f |-> s0.f, t |-> t, ret_e |-> s1.e, ret_f |-> s1.f]
         /\ temp_storage' = [e |-> s1.e,
                             f |-> take_collision_step(storage_step(s1, i), built).f,
                             i |-> i + 1]
         /\ UNCHANGED <<phase, err>>

\* The rest of step.py timestep after vp_step returned s1 (or raised): the
\* collision step on the integrator's f, the diagnostics, and the write-back
\* of e and f.  An exception leaves temp_storage as it was.
AfterVpStep(s0, s1, t, i) ==
  IF s1.err # "none"
    THEN /\ phase' = "crashed"
         /\ err' = s1.err
         /\ trace' = s1.tr
         /\ call' = [e |-> s0.e, f |-> s0.f, t |-> t, ret_e |-> NoId, ret_f |-> NoId]
         /\ UNCHANGED temp_storage
    ELSE /\ trace' = write_back(storage_step(take_collision_step(s1, built), i)).tr
         /\ call' = [e |-> s0.e, f |-> s0.f, t |-> t, ret_e |-> s1.e, ret_f |-> s1.f]
         /\ temp_storage' = [e |-> s1.e,
                             f |-> take_collision_step(s1, built).f,
                             i |-> i + 1]
         /\ UNCHANGED <<phase, err>>

\* step.py timestep(temp_storage, i)
Timestep ==
  /\ phase = "ready"
  /\ entry = "closures"
  /\ temp_storage.i < MaxSteps
  /\ AfterVpStep(StartCall(temp_storage.i + 1, temp_storage.e, temp_storage.f),
                 VpStep(built, cfg.dt,
                        StartCall(temp_storage.i + 1, temp_storage.e, temp_storage.f),
                        TimeAt(temp_storage.i, cfg.dt)),
                 TimeAt(temp_storage.i, cfg.dt), temp_storage.i)
  /\ UNCHANGED <<cfg, built, entry>>
  /\ UNCHANGED <<solver_vars, fn_vars>>

\* The return of a vp_step called directly
Returned(s0, s1, t, i) ==
  /\ trace' = s1.tr
  /\ call' = [e |-> s0.e, f |-> s0.f, t |-> t, ret_e |-> s1.e, ret_f |-> s1.f]
  /\ temp_storage' = [e |-> s1.e, f |-> s1.f, i |-> i + 1]

\* e, f = vp_step(e=e, f=f, t=t) of an integrator assembled from the factories
CallVpStep ==
  /\ phase = "ready"
  /\ entry = "factories"
  /\ temp_storage.i < MaxSteps
  /\ Returned(StartCall(temp_storage.i + 1, temp_storage.e, temp_storage.f),
              VpStep(built, cfg.dt,
                     StartCall(temp_storage.i + 1, temp_storage.e, temp_storage.f),
                     TimeAt(temp_storage.i, cfg.dt)),
              TimeAt(temp_storage.i, cfg.dt), temp_storage.i)
  /\ UNCHANGED <<cfg, phase, err, built, entry>>
  /\ UNCHANGED <<solver_vars, fn_vars>>

Next ==
  \/ GetTimestep
  \/ GetStepClosures
  \/ GetVdfdx
  \/ GetEdfdv
  \/ GetEdfdvOfPackage
  \/ GetFieldSolver
  \/ GetTimeIntegrator
  \/ Timestep
  \/ CallVpStep

Spec == Init /\ [][Next]_vars

\* ============================================ the tridiagonal solvers
\* collisions.py.  Arrays are kept in a heap of storages so that a copy and a
\* second name for the same storage differ.  An array of shape (nx, n) is a
\* sequence of nx rows of n numbers; index k of the source is index k + 1 here.

\* nx and nv of the grid the solvers are built for
NX == 2

NV == 3

\* the entries the first spatial cell's rows of a, b and c are drawn from
SubVals == {-1, 2}

DiagVals == {1, 2}

SuperVals == {0, 1}

\* the right-hand sides f of the first spatial cell
RhsKinds == {"ramp", "spike"}

RhsRow(kind) ==
  [j \in 1..NV |-> IF kind = "ramp" THEN j - 2 ELSE IF j = 1 THEN 3 ELSE -1]

\* the systems the other spatial cells are drawn from
OtherRows == {"identity", "dominant"}

\* A number is <<n, d>>: n/d in lowest terms with d > 0; <<0, 1>> and
\* <<0, -1>> are the zeros +0 and -0; <<1, 0>> and <<-1, 0>> the infinities;
\* <<0, 0>> is NaN.  The operations follow IEEE 754 without rounding.
NaN == <<0, 0>>

Abs(n) == IF n < 0 THEN -n ELSE n

Sgn(n) == IF n < 0 THEN -1 ELSE IF n > 0 THEN 1 ELSE 0

RECURSIVE Gcd(_, _)
Gcd(m, n) == IF n = 0 THEN m ELSE Gcd(n, m % n)

ReduceBy(n, d, g) == <<Sgn(d) * (n \div g), Abs(d) \div g>>

Reduce(n, d) == ReduceBy(n, d, Gcd(Abs(n), Abs(d)))

Rat(n) == <<n, 1>>

IsNaN(x) == x = NaN

IsInf(x) == x[2] = 0 /\ x[1] # 0

IsZero(x) == x[1] = 0 /\ x[2] # 0

SignOf(x) == IF x[1] # 0 THEN Sgn(x[1]) ELSE x[2]

FNeg(x) == IF IsZero(x) THEN <<0, -x[2]>> ELSE <<-x[1], x[2]>>

SumOver(n, d) == IF n = 0 THEN <<0, 1>> ELSE Reduce(n, d)

\* x + y of two non-zero finite numbers, over the least common denominator
SumBy(x, y, g) == SumOver(x[1] * (y[2] \div g) + y[1] * (x[2] \div g), (x[2] \div g) * y[2])

\* (p/q) * (r/t) of non-zero numbers, cancelling across before multiplying
ProdBy(p, q, r, t, g1, g2) ==
  <<Sgn(q) * Sgn(t) * (p \div g1) * (r \div g2), (Abs(q) \div g2) * (Abs(t) \div g1)>>

Prod(p, q, r, t) == ProdBy(p, q, r, t, Gcd(Abs(p), Abs(t)), Gcd(Abs(r), Abs(q)))

FAdd(x, y) ==
  IF IsNaN(x) \/ IsNaN(y) THEN NaN
  ELSE IF IsInf(x) THEN (IF IsInf(y) /\ y # x THEN NaN ELSE x)
  ELSE IF IsInf(y) THEN y
  ELSE IF IsZero(x) /\ IsZero(y) THEN (IF x = y THEN x ELSE <<0, 1>>)
  ELSE IF IsZero(x) THEN y
  ELSE IF IsZero(y) THEN x
  ELSE SumBy(x, y, Gcd(x[2], y[2]))

FSub(x, y) == FAdd(x, FNeg(y))

FMul(x, y) ==
  IF IsNaN(x) \/ IsNaN(y) THEN NaN
  ELSE IF (IsInf(x) /\ IsZero(y)) \/ (IsZero(x) /\ IsInf(y)) THEN NaN
  ELSE IF IsInf(x) \/ IsInf(y) THEN <<SignOf(x) * SignOf(y), 0>>
  ELSE IF IsZero(x) \/ IsZero(y) THEN <<0, SignOf(x) * SignOf(y)>>
  ELSE Prod(x[1], x[2], y[1], y[2])

FDiv(x, y) ==
  IF IsNaN(x) \/ IsNaN(y) THEN NaN
  ELSE IF (IsInf(x) /\ IsInf(y)) \/ (IsZero(x) /\ IsZero(y)) THEN NaN
  ELSE IF IsInf(x) \/ IsZero(y) THEN <<SignOf(x) * SignOf(y), 0>>
  ELSE IF IsZero(x) \/ IsInf(y) THEN <<0, SignOf(x) * SignOf(y)>>
  ELSE Prod(x[1], x[2], y[2], y[1])

\* numpy ==
NumEq(x, y) ==
  IF IsNaN(x) \/ IsNaN(y) THEN FALSE
  ELSE IF IsZero(x) /\ IsZero(y) THEN TRUE
  ELSE x = y

\* (mutant) a second name for the same storage instead of a copy
NpCopy_alias(h, id) == [heap |-> h, id |-> id]

\* arr.copy(): a new storage holding the values of the old one
NpCopy(h, id) == [heap |-> Append(h, h[id]), id |-> Len(h) + 1]

\* arr[:, j] = col, an entry of every row
RECURSIVE SetColFrom(_, _, _, _, _)
SetColFrom(h, id, j, col, ix) ==
  IF ix > NX THEN h
  ELSE SetColFrom([h EXCEPT ![id][ix][j] = col[ix]], id, j, col, ix + 1)

SetCol(h, id, j, col) == SetColFrom(h, id, j, col, 1)

\* arr[ix,] = row
SetRow(h, id, ix, row) == [h EXCEPT ![id][ix] = row]

\* _batched_tridiag_solver_: for it in range(1, nv)
RECURSIVE ForwardSweep(_, _, _, _, _, _)
ForwardSweep(h, ac, bc, cc, dc, it) ==
  IF it > NV - 1 THEN h
  ELSE LET mc == [ix \in 1..NX |-> FDiv(h[ac][ix][it], h[bc][ix][it])]
           hb == SetCol(h, bc, it + 1,
                   [ix \in 1..NX |-> FSub(h[bc][ix][it + 1], FMul(mc[ix], h[cc][ix][it]))])
           hd == SetCol(hb, dc, it + 1,
                   [ix \in 1..NX |-> FSub(hb[dc][ix][it + 1], FMul(mc[ix], hb[dc][ix][it]))])
       IN  ForwardSweep(hd, ac, bc, cc, dc, it + 1)

\* _batched_tridiag_solver_: for il in range(nv - 2, -1, -1)
RECURSIVE BackSubstitution(_, _, _, _, _, _)
BackSubstitution(h, xc, bc, cc, dc, il) ==
  IF il < 0 THEN h
  ELSE BackSubstitution(
         SetCol(h, xc, il + 1,
           [ix \in 1..NX |->
              FDiv(FSub(h[dc][ix][il + 1], FMul(h[cc][ix][il + 1], h[xc][ix][il + 2])),
                   h[bc][ix][il + 1])]),
         xc, bc, cc, dc, il - 1)

\* _batched_tridiag_solver_ after the forward sweep: xc = bc (a second name of
\* bc's storage), the last column, the back substitution, return xc
Substitute(h, xc, bc, cc, dc) ==
  [heap |-> BackSubstitution(
              SetCol(h, xc, NV, [ix \in 1..NX |-> FDiv(h[dc][ix][NV], h[bc][ix][NV])]),
              xc, bc, cc, dc, NV - 2),
   ret |-> xc,
   raised |-> "none"]

\* _batched_tridiag_solver_ after its four copies
SweepAndSubstitute(h, ac, bc, cc, dc) ==
  Substitute(ForwardSweep(h, ac, bc, cc, dc, 1), bc, bc, cc, dc)

\* collisions.py _batched_tridiag_solver_(a, b, c, f)
batched_tridiag_solver(h, a, b, c, f) ==
  LET ra == NpCopy(h, a)
      rb == NpCopy(ra.heap, b)
      rc == NpCopy(rb.heap, c)
      rd == NpCopy(rc.heap, f)
  IN  SweepAndSubstitute(rd.heap, ra.id, rb.id, rc.id, rd.id)

\* np.diag(a[ix,], -1) + np.diag(b[ix,], 0) + np.diag(c[ix,], 1): the dense
\* matrix, row by row
RECURSIVE LeftsideRow(_, _, _, _, _)
LeftsideRow(av, bv, cv, i, j) ==
  IF j = 0 THEN <<>>
  ELSE Append(LeftsideRow(av, bv, cv, i, j - 1),
              IF j = i - 1 THEN av[j]
              ELSE IF j = i THEN bv[i]
              ELSE IF j = i + 1 THEN cv[i]
              ELSE Rat(0))

RECURSIVE LeftsideRows(_, _, _, _)
LeftsideRows(av, bv, cv, i) ==
  IF i = 0 THEN <<>>
  ELSE Append(LeftsideRows(av, bv, cv, i - 1), LeftsideRow(av, bv, cv, i, NV))

\* (mutant) a on the super-diagonal and c on the sub-diagonal
Leftside_swapped(av, bv, cv) == LeftsideRows(cv, bv, av, NV)

Leftside(av, bv, cv) == LeftsideRows(av, bv, cv, NV)

\* np.linalg.solve(M, rhs): LAPACK gesv, an LU factorisation with partial
\* pivoting of the matrix extended by the right-hand side, then the back
\* substitution; a zero pivot column makes it raise LinAlgError.
AbsLess(x, y) == Abs(x[1]) * Abs(y[2]) < Abs(y[1]) * Abs(x[2])

RECURSIVE Extend(_, _, _)
Extend(M, rhs, i) ==
  IF i = 0 THEN <<>> ELSE Append(Extend(M, rhs, i - 1), Append(M[i], rhs[i]))

RECURSIVE PivotRow(_, _, _, _)
PivotRow(A, k, i, best) ==
  IF i > Len(A) THEN best
  ELSE PivotRow(A, k, i + 1, IF AbsLess(A[best][k], A[i][k]) THEN i ELSE best)

SwapRows(A, k, p) == [A EXCEPT ![k] = A[p], ![p] = A[k]]

RECURSIVE RowSub(_, _, _, _)
RowSub(ri, rk, m, j) ==
  IF j = 0 THEN <<>>
  ELSE Append(RowSub(ri, rk, m, j - 1), FSub(ri[j], FMul(m, rk[j])))

RECURSIVE ElimBelow(_, _, _)
ElimBelow(A, k, i) ==
  IF i > Len(A) THEN A
  ELSE ElimBelow([A EXCEPT ![i] = RowSub(A[i], A[k], FDiv(A[i][k], A[k][k]), Len(A[i]))],
                 k, i + 1)

\* <<>> stands for the singular case
RECURSIVE Factorise(_, _)
Factorise(A, k) ==
  IF k > Len(A) THEN A
  ELSE IF IsZero(A[PivotRow(A, k, k + 1, k)][k]) THEN <<>>
  ELSE Factorise(ElimBelow(SwapRows(A, k, PivotRow(A, k, k + 1, k)), k, k + 1), k + 1)

RECURSIVE Dot(_, _, _)
Dot(r, x, j) == IF j > Len(x) THEN Rat(0) ELSE FAdd(FMul(r[j], x[j]), Dot(r, x, j + 1))

RECURSIVE BackSolve(_, _, _)
BackSolve(U, x, i) ==
  IF i = 0 THEN x
  ELSE BackSolve(U, [x EXCEPT ![i] = FDiv(FSub(U[i][Len(U) + 1], Dot(U[i], x, i + 1)),
                                          U[i][i])],
                 i - 1)

SolveFactorised(U, rhs) ==
  IF U = <<>> THEN [singular |-> TRUE, x |-> <<>>]
  ELSE [singular |-> FALSE, x |-> BackSolve(U, rhs, Len(U))]

LinalgSolve(M, rhs) == SolveFactorised(Factorise(Extend(M, rhs, Len(M)), 1), rhs)

\* _solver_: for ix in range(nx): f[ix,] = np.linalg.solve(leftside, f[ix,]);
\* when the solve raises, the rows of f already solved stay overwritten
RECURSIVE NaiveLoop(_, _, _, _, _, _)
RECURSIVE NaiveStore(_, _, _, _, _, _, _)
NaiveLoop(h, a, b, c, f, ix) ==
  IF ix > NX THEN [heap |-> h, ret |-> f, raised |-> "none"]
  ELSE NaiveStore(h, a, b, c, f, ix,
                  LinalgSolve(Leftside(h[a][ix], h[b][ix], h[c][ix]), h[f][ix]))

NaiveStore(h, a, b, c, f, ix, r) ==
  IF r.singular THEN [heap |-> h, ret |-> 0, raised |-> "LinAlgError"]
  ELSE NaiveLoop(SetRow(h, f, ix, r.x), a, b, c, f, ix + 1)

\* (mutant) the loop writes the rows into a copy of f and returns the copy
naive_solver_on_copy(h, a, b, c, f) ==
  NaiveLoop(NpCopy(h, f).heap, a, b, c, NpCopy(h, f).id, 1)

\* collisions.py _solver_(a, b, c, f)
naive_solver(h, a, b, c, f) == NaiveLoop(h, a, b, c, f, 1)

\* the rows of spatial cell ix, a cell other than the first
OtherRow(kind, name, ix) ==
  IF kind = "identity"
    THEN CASE name = "a" -> [j \in 1..(NV - 1) |-> Rat(0)]
           [] name = "b" -> [j \in 1..NV |-> Rat(1)]
           [] name = "c" -> [j \in 1..(NV - 1) |-> Rat(0)]
           [] name = "f" -> [j \in 1..NV |-> Rat(j + ix)]
    ELSE CASE name = "a" -> [j \in 1..(NV - 1) |-> Rat(-1)]
           [] name = "b" -> [j \in 1..NV |-> Rat(2 + ix)]
           [] name = "c" -> [j \in 1..(NV - 1) |-> Rat(1)]
           [] name = "f" -> [j \in 1..NV |-> Rat(2 * j - ix)]

Rats(row) == [j \in 1..Len(row) |-> Rat(row[j])]

Array(first, others, name) ==
  [ix \in 1..NX |-> IF ix = 1 THEN Rats(first) ELSE OtherRow(others, name, ix)]

InitSolver ==
  /\ cfg = [name |-> "solver"]
  /\ phase = "solver"
  /\ err = "none"
  /\ built = NoneBuilt
  /\ entry = "none"
  /\ temp_storage = [e |-> <<0, 0>>, f |-> <<0, 0>>, i |-> 0]
  /\ call = [e |-> NoId, f |-> NoId, t |-> Zero, ret_e |-> NoId, ret_f |-> NoId]
  /\ trace = <<>>
  /\ \E av \in [1..(NV - 1) -> SubVals], bv \in [1..NV -> DiagVals],
        cv \in [1..(NV - 1) -> SuperVals], fv \in RhsKinds,
        others \in OtherRows :
       heap = <<Array(av, others, "a"), Array(bv, others, "b"),
                Array(cv, others, "c"), Array(RhsRow(fv), others, "f")>>
  /\ args = [a |-> 1, b |-> 2, c |-> 3, f |-> 4]
  /\ calls = <<>>
  /\ inp = [kind |-> "none"]
  /\ out = [fn |-> "none"]

\* what a call saw, what it left in its arguments, and what it returned
Called(name, r) ==
  /\ heap' = r.heap
  /\ calls' = Append(calls,
       [solver |-> name,
        before |-> [k \in {"a", "b", "c", "f"} |-> heap[args[k]]],
        after  |-> [k \in {"a", "b", "c", "f"} |-> r.heap[args[k]]],
        raised |-> r.raised,
        ret    |-> r.ret,
        fresh  |-> r.ret > Len(heap),
        x      |-> IF r.raised = "none" THEN r.heap[r.ret] ELSE <<>>])
  /\ UNCHANGED <<args, step_vars, fn_vars>>

HasCalled(name) == \E k \in 1..Len(calls) : calls[k].solver = name

\* solver(cee_a, cee_b, cee_c, f) with the batched solver, on the arrays as
\* they were assembled
SolveBatched ==
  /\ phase = "solver"
  /\ calls = <<>>
  /\ Called("batched", batched_tridiag_solver(heap, args.a, args.b, args.c, args.f))

\* solver(cee_a, cee_b, cee_c, f) with the naive solver
SolveNaive ==
  /\ phase = "solver"
  /\ ~HasCalled("naive")
  /\ Called("naive", naive_solver(heap, args.a, args.b, args.c, args.f))

NextSolver ==
  \/ SolveBatched
  \/ SolveNaive

SpecSolver == InitSolver /\ [][NextSolver]_vars

\* ==================================================== the external driver
\* core/field_driver.py and field_driver.py.  A pulse dictionary is a sequence
\* of descriptors in the order of its keys; times are multiples of 1/2.

\* the largest number of pulse descriptors, and the latest query time in halves
MaxPulses == 2

MaxHalfTime == 10

\* comparison of two finite numbers
FLess(x, y) == x[1] * Abs(y[2]) < y[1] * Abs(x[2])

RECURSIVE FPow(_, _)
FPow(x, n) == IF n = 0 THEN Rat(1) ELSE FMul(FPow(x, n - 1), x)

\* (mutant) the cubic smoothstep 3 s^2 - 2 s^3
RiseFallCoeff_cubic(normalized_time) ==
  FSub(FMul(Rat(3), FPow(normalized_time, 2)), FMul(Rat(2), FPow(normalized_time, 3)))

\* core/field_driver.py _get_rise_fall_coeff_
RiseFallCoeff(normalized_time) ==
  FAdd(FSub(FMul(Rat(6), FPow(normalized_time, 5)),
            FMul(Rat(15), FPow(normalized_time, 4))),
       FMul(Rat(10), FPow(normalized_time, 3)))

\* get_pulse_coefficient inside (start_time, end_time)
PulseInside(d, tt, end_rise, end_flat) ==
  IF ~FLess(end_rise, tt)
    THEN RiseFallCoeff(FDiv(FSub(tt, Rat(d.start_time)), Rat(d.rise_time)))
  ELSE IF FLess(end_rise, tt) /\ FLess(tt, end_flat)
    THEN Rat(1)
  ELSE IF ~FLess(tt, end_flat)
    THEN FSub(Rat(1), RiseFallCoeff(FDiv(FSub(tt, end_flat), Rat(d.fall_time))))
  ELSE Rat(0)

\* core/field_driver.py get_pulse_coefficient(pulse_profile_dictionary, tt)
get_pulse_coefficient(d, tt) ==
  IF FLess(Rat(d.start_time), tt)
     /\ FLess(tt, Rat(d.start_time + d.rise_time + d.flat_time + d.fall_time))
    THEN FMul(PulseInside(d, tt, Rat(d.start_time + d.rise_time),
                          Rat(d.start_time + d.rise_time + d.flat_time)),
              Rat(d.a0))
    ELSE Rat(0)

\* one addition to total_field: coef * wave(kk * x - ww * current_time)
Term(coef, kk, ww, wave) == [coef |-> coef, kk |-> kk, ww |-> ww, wave |-> wave]

\* core/field_driver.py driver_function: the loop leaves kk, ww and envelope of
\* the last key; the addition to total_field comes after the loop
core_driver_function(pd, tt) ==
  IF pd = <<>> THEN <<>>
  ELSE IF ~IsZero(get_pulse_coefficient(pd[Len(pd)], tt))
    THEN <<Term(get_pulse_coefficient(pd[Len(pd)], tt), pd[Len(pd)].k0, pd[Len(pd)].w0, "cos")>>
  ELSE <<>>

\* field_driver.py driver_function: one addition per key, inside the loop; the
\* envelope is the difference of two tanh, kept as the name of its descriptor
RECURSIVE tanh_driver_function(_, _, _)
tanh_driver_function(pd, tt, n) ==
  IF n = 0 THEN <<>>
  ELSE Append(tanh_driver_function(pd, tt, n - 1),
              Term(<<"tanh_envelope", n, pd[n].k0 * pd[n].a0>>, pd[n].k0, pd[n].w0, "sin"))

\* the descriptors of the first key, and of the further keys
FirstPulses ==
  [start_time : {0, 1}, rise_time : {0, 1, 2}, flat_time : {0, 1}, fall_time : {0, 2},
   a0 : {-1, 2}, k0 : {1}, w0 : {1}]

MorePulses ==
  {[start_time |-> 0, rise_time |-> 2, flat_time |-> 1, fall_time |-> 1,
    a0 |-> 3, k0 |-> 2, w0 |-> 3],
   [start_time |-> 2, rise_time |-> 1, flat_time |-> 0, fall_time |-> 2,
    a0 |-> 1, k0 |-> 3, w0 |-> 2]}

RECURSIVE PulseDictionaries(_)
PulseDictionaries(n) ==
  IF n = 0 THEN {<<>>}
  ELSE IF n = 1 THEN {<<d>> : d \in FirstPulses}
  ELSE {Append(pd, d) : pd \in PulseDictionaries(n - 1), d \in MorePulses}

HalfTime(k) == IF k % 2 = 0 THEN Rat(k \div 2) ELSE <<k, 2>>

InitDriver ==
  /\ cfg = [name |-> "driver"]
  /\ phase = "driver"
  /\ err = "none"
  /\ built = NoneBuilt
  /\ entry = "none"
  /\ temp_storage = [e |-> <<0, 0>>, f |-> <<0, 0>>, i |-> 0]
  /\ call = [e |-> NoId, f |-> NoId, t |-> Zero, ret_e |-> NoId, ret_f |-> NoId]
  /\ trace = <<>>
  /\ heap = <<>>
  /\ args = [a |-> 0, b |-> 0, c |-> 0, f |-> 0]
  /\ calls = <<>>
  /\ \E n \in 0..MaxPulses : \E pd \in PulseDictionaries(n) : \E k \in 0..MaxHalfTime :
       inp = [kind |-> "driver", pulse_dictionary |-> pd, current_time |-> HalfTime(k)]
  /\ out = [fn |-> "none"]

\* get_pulse_coefficient(pulse_profile_dictionary=pulse_dictionary[key], tt=current_time)
GetPulseCoefficient ==
  /\ inp.kind = "driver"
  /\ \E key \in 1..Len(inp.pulse_dictionary) :
       out' = [fn |-> "get_pulse_coefficient", key |-> key,
               value |-> get_pulse_coefficient(inp.pulse_dictionary[key], inp.current_time)]
  /\ UNCHANGED <<inp, step_vars, solver_vars>>

\* core/field_driver.py driver_function(current_time)
CoreDriverFunction ==
  /\ inp.kind = "driver"
  /\ out' = [fn |-> "core.field_driver.driver_function", key |-> 0,
             value |-> core_driver_function(inp.pulse_dictionary, inp.current_time)]
  /\ UNCHANGED <<inp, step_vars, solver_vars>>

\* field_driver.py driver_function(current_time)
TanhDriverFunction ==
  /\ inp.kind = "driver"
  /\ out' = [fn |-> "field_driver.driver_function", key |-> 0,
             value |-> tanh_driver_function(inp.pulse_dictionary, inp.current_time,
                                            Len(inp.pulse_dictionary))]
  /\ UNCHANGED <<inp, step_vars, solver_vars>>

NextDriver ==
  \/ GetPulseCoefficient
  \/ CoreDriverFunction
  \/ TanhDriverFunction

SpecDriver == InitDriver /\ [][NextDriver]_vars

\* ================================================= the spectral field solve
\* initializers.py initialize_spatial_quantities and core/field.py.  Lengths
\* are rational multiples of pi (a box of test_fieldsolver.py is 8 pi long), so
\* that the wavenumbers 2 pi m / (nx dx) are rational.  Grid values are numbers
\* (a + b sqrt(3) + i (c + d sqrt(3))) / den, written <<a, b, c, d, den>>; they
\* hold the sines and cosines of the multiples of pi/6 and the roots of unity
\* of the orders 1, 2, 3, 4 and 6 exactly.

\* the largest amplitude of a mode of the charge density
MaxAmp == 2

ZBy(a, b, c, d, den, g) == <<a \div g, b \div g, c \div g, d \div g, den \div g>>

ZNorm(a, b, c, d, den) ==
  ZBy(a, b, c, d, den, Gcd(Abs(a), Gcd(Abs(b), Gcd(Abs(c), Gcd(Abs(d), den)))))

ZZero == <<0, 0, 0, 0, 1>>

ZOne == <<1, 0, 0, 0, 1>>

\* the imaginary unit 1j
ZI == <<0, 0, 1, 0, 1>>

\* a finite float as a grid value
ZOfRat(r) == IF IsZero(r) THEN ZZero ELSE <<r[1], 0, 0, 0, r[2]>>

ZAdd(x, y) ==
  ZNorm(x[1] * y[5] + y[1] * x[5], x[2] * y[5] + y[2] * x[5],
        x[3] * y[5] + y[3] * x[5], x[4] * y[5] + y[4] * x[5], x[5] * y[5])

ZNeg(x) == <<-x[1], -x[2], -x[3], -x[4], x[5]>>

ZMul(x, y) ==
  ZNorm(x[1] * y[1] + 3 * x[2] * y[2] - x[3] * y[3] - 3 * x[4] * y[4],
        x[1] * y[2] + x[2] * y[1] - x[3] * y[4] - x[4] * y[3],
        x[1] * y[3] + 3 * x[2] * y[4] + x[3] * y[1] + 3 * x[4] * y[2],
        x[1] * y[4] + x[2] * y[3] + x[3] * y[2] + x[4] * y[1],
        x[5] * y[5])

\* np.real
ZReal(x) == ZNorm(x[1], x[2], 0, 0, x[5])

\* twice the cosine of a * pi / 6, as <<rational part, part in sqrt(3)>>
TwoCos(a) ==
  << <<2, 0>>, <<0, 1>>, <<1, 0>>, <<0, 0>>, <<-1, 0>>, <<0, -1>>,
     <<-2, 0>>, <<0, -1>>, <<-1, 0>>, <<0, 0>>, <<1, 0>>, <<0, 1>> >>[(a % 12) + 1]

\* np.cos and np.sin at a * pi / 6
Cos(a) == ZNorm(TwoCos(a)[1], TwoCos(a)[2], 0, 0, 2)

Sin(a) == Cos(a - 3)

\* exp(i a pi / 6)
Cis(a) == ZNorm(TwoCos(a)[1], TwoCos(a)[2], TwoCos(a - 3)[1], TwoCos(a - 3)[2], 2)

\* sum over j of x[j] * exp(sign * 2 pi i j k / n), the first j terms
RECURSIVE DftSum(_, _, _, _)
DftSum(x, k, sign, j) ==
  IF j = 0 THEN ZZero
  ELSE ZAdd(DftSum(x, k, sign, j - 1),
            ZMul(x[j], Cis(sign * (12 \div Len(x)) * (j - 1) * k)))

RECURSIVE Dft(_, _, _, _)
Dft(x, sign, scale, k) ==
  IF k = 0 THEN <<>>
  ELSE Append(Dft(x, sign, scale, k - 1), ZMul(scale, DftSum(x, k - 1, sign, Len(x))))

\* (mutant) the inverse transform without its factor 1 / n
ifft_unscaled(x) == Dft(x, 1, ZOne, Len(x))

\* np.fft.fft and np.fft.ifft
fft(x) == Dft(x, -1, ZOne, Len(x))

ifft(x) == Dft(x, 1, <<1, 0, 0, 0, Len(x)>>, Len(x))

\* np.fft.fftfreq(n, d)[i], i from 0: the frequencies 0, 1, ..., (n-1) // 2,
\* -(n // 2), ..., -1, over n * d
fftfreq(n, d, i) ==
  FDiv(Rat(IF i <= (n - 1) \div 2 THEN i ELSE i - n), FMul(Rat(n), d))

\* np.linspace(start, stop, num)
RECURSIVE linspace(_, _, _, _)
linspace(start, stop, num, j) ==
  IF j = 0 THEN <<>>
  ELSE Append(linspace(start, stop, num, j - 1),
              IF num = 1 THEN start
              ELSE FAdd(start, FMul(Rat(j - 1), FDiv(FSub(stop, start), Rat(num - 1)))))

\* kx = np.fft.fftfreq(x.size, d=dx) * 2.0 * np.pi, dx in units of pi
RECURSIVE Kx(_, _, _)
Kx(nx, dx, i) ==
  IF i = 0 THEN <<>>
  ELSE Append(Kx(nx, dx, i - 1), FMul(fftfreq(nx, dx, i - 1), Rat(2)))

\* (mutant) one over every wavenumber, the zero wavenumber included
RECURSIVE OneOverKx_every(_, _)
OneOverKx_every(kx, i) ==
  IF i = 0 THEN <<>>
  ELSE Append(OneOverKx_every(kx, i - 1), FDiv(Rat(1), kx[i]))

\* one_over_kx = np.zeros_like(kx); one_over_kx[1:] = 1.0 / kx[1:]
RECURSIVE OneOverKx(_, _)
OneOverKx(kx, i) ==
  IF i = 0 THEN <<>>
  ELSE Append(OneOverKx(kx, i - 1), IF i = 1 THEN Rat(0) ELSE FDiv(Rat(1), kx[i]))

SpatialQuantities(nx, dx, xmin, xmax, kx) ==
  [dx |-> dx,
   x |-> linspace(FAdd(xmin, FDiv(dx, Rat(2))), FSub(xmax, FDiv(dx, Rat(2))), nx, nx),
   kx |-> kx,
   one_over_kx |-> OneOverKx(kx, nx)]

\* initializers.py initialize_spatial_quantities(xmin, xmax, nx)
initialize_spatial_quantities(xmin, xmax, nx) ==
  SpatialQuantities(nx, FDiv(FSub(xmax, xmin), Rat(nx)), xmin, xmax,
                    Kx(nx, FDiv(FSub(xmax, xmin), Rat(nx)), nx))

Finite(r) == ~IsNaN(r) /\ ~IsInf(r)

\* 1j * one_over_kx * fft.fft(net_charge_density)
RECURSIVE Modes(_, _, _)
Modes(one_over_kx, X, k) ==
  IF k = 0 THEN <<>>
  ELSE Append(Modes(one_over_kx, X, k - 1), ZMul(ZI, ZMul(ZOfRat(one_over_kx[k]), X[k])))

RECURSIVE Reals(_, _)
Reals(y, j) == IF j = 0 THEN <<>> ELSE Append(Reals(y, j - 1), ZReal(y[j]))

\* core/field.py __fft_solve__; a wavenumber factor that is not finite leaves
\* no finite entry in the result
fft_solve(net_charge_density, one_over_kx) ==
  IF \E k \in 1..Len(one_over_kx) : ~Finite(one_over_kx[k])
    THEN [finite |-> FALSE, modes |-> <<>>, field |-> <<>>]
    ELSE [finite |-> TRUE,
          modes |-> Modes(one_over_kx, fft(net_charge_density), Len(net_charge_density)),
          field |-> Reals(ifft(Modes(one_over_kx, fft(net_charge_density),
                                     Len(net_charge_density))), Len(net_charge_density))]

\* 1.0 - charge_density
RECURSIVE OneMinus(_, _)
OneMinus(charge_density, j) ==
  IF j = 0 THEN <<>>
  ELSE Append(OneMinus(charge_density, j - 1), ZAdd(ZOne, ZNeg(charge_density[j])))

\* core/field.py solve_for_field(charge_density, one_over_kx)
solve_for_field(charge_density, one_over_kx) ==
  fft_solve(OneMinus(charge_density, Len(charge_density)), one_over_kx)

\* the grids: nx cells, the box from xmin pi to xmax pi
NxSet == {1, 2, 3, 4, 6}

Boxes == {<<0, 8>>, <<0, 2>>, <<-1, 2>>}

\* the angle k x in units of pi / 6, for a wavenumber k and a place x (in pi)
AngleBy(r) == r[1] \div r[2]

Angle(k, x) == AngleBy(FMul(Rat(6), FMul(k, x)))

\* test_fieldsolver.py: 1.0 + A sin(m kx_pert axis) + B cos(mp kx_pert axis)
\* with kx_pert = 2 pi / xmax, given to solve_for_field as 1.0 - that
RECURSIVE ChargeDensity(_, _, _, _)
ChargeDensity(form, kx_pert, axis, j) ==
  IF j = 0 THEN <<>>
  ELSE Append(ChargeDensity(form, kx_pert, axis, j - 1),
              ZAdd(ZOne,
                   ZAdd(ZMul(ZOfRat(Rat(form.A)), Sin(Angle(FMul(Rat(form.m), kx_pert), axis[j]))),
                        ZMul(ZOfRat(Rat(form.B)), Cos(Angle(FMul(Rat(form.mp), kx_pert), axis[j]))))))

\* a charge density given by its samples
RECURSIVE Samples(_, _)
Samples(kind, j) ==
  IF j = 0 THEN <<>>
  ELSE Append(Samples(kind, j - 1),
              ZOfRat(IF kind = "ramp" THEN <<j, 2>>
                     ELSE IF kind = "spike" THEN Rat(IF j = 1 THEN 3 ELSE 0)
                     ELSE Rat(1)))

Forms == [A : 0..MaxAmp, m : 1..3, B : 0..MaxAmp, mp : 1..3]

FieldInputs ==
  {[kind |-> "field", nx |-> nx, xmin |-> Rat(b[1]), xmax |-> Rat(b[2]),
    given |-> kind, form |-> [A |-> 0, m |-> 1, B |-> 0, mp |-> 1],
    charge_density |-> Samples(kind, nx)] :
     nx \in NxSet, b \in Boxes, kind \in {"ramp", "spike", "uniform"}}
  \cup
  {[kind |-> "field", nx |-> nx, xmin |-> Rat(0), xmax |-> Rat(xmax),
    given |-> "modes", form |-> form,
    charge_density |->
      OneMinus(ChargeDensity(form, FDiv(Rat(2), Rat(xmax)),
                             initialize_spatial_quantities(Rat(0), Rat(xmax), nx).x, nx), nx)] :
     nx \in {3, 6}, xmax \in {2, 8}, form \in Forms}

InitField ==
  /\ cfg = [name |-> "field"]
  /\ phase = "field"
  /\ err = "none"
  /\ built = NoneBuilt
  /\ entry = "none"
  /\ temp_storage = [e |-> <<0, 0>>, f |-> <<0, 0>>, i |-> 0]
  /\ call = [e |-> NoId, f |-> NoId, t |-> Zero, ret_e |-> NoId, ret_f |-> NoId]
  /\ trace = <<>>
  /\ heap = <<>>
  /\ args = [a |-> 0, b |-> 0, c |-> 0, f |-> 0]
  /\ calls = <<>>
  /\ inp \in FieldInputs
  /\ out = [fn |-> "none"]

\* initialize_spatial_quantities(xmin, xmax, nx)
InitializeSpatialQuantities ==
  /\ inp.kind = "field"
  /\ out' = [fn |-> "initialize_spatial_quantities",
             value |-> initialize_spatial_quantities(inp.xmin, inp.xmax, inp.nx)]
  /\ UNCHANGED <<inp, step_vars, solver_vars>>

\* solve_for_field(charge_density, one_over_kx) on the grid of the box
SolveForField ==
  /\ inp.kind = "field"
  /\ out' = [fn |-> "solve_for_field",
             value |-> solve_for_field(inp.charge_density,
                         initialize_spatial_quantities(inp.xmin, inp.xmax, inp.nx).one_over_kx)]
  /\ UNCHANGED <<inp, step_vars, solver_vars>>

NextField ==
  \/ InitializeSpatialQuantities
  \/ SolveForField

SpecField == InitField /\ [][NextField]_vars

\* ==================================================== the collision step
\* core/collisions.py array makers and step.py take_collision_step, on the
\* values of f.  The velocity grid of initialize_velocity_quantities with
\* vmax = NV has dv = 2 and the cell centres -NV + 1, -NV + 3, ..., NV - 1.

\* the largest number of collision steps taken in a row, and the largest
\* denominator of an entry of f from which a further step is followed: the
\* values are exact fractions and outgrow the integers within a few steps
MaxCollisions == 2

MaxDenominator == 8

\* v = np.linspace(-vmax + dv / 2.0, vmax - dv / 2.0, nv)
vax == linspace(FAdd(Rat(-NV), FDiv(Rat(2), Rat(2))), FSub(Rat(NV), FDiv(Rat(2), Rat(2))), NV, NV)

\* dv = 2 * vmax / nv
dv == FDiv(FMul(Rat(2), Rat(NV)), Rat(NV))

\* np.trapz(y, dx=dx): the sum of dx * (y[j] + y[j + 1]) / 2
RECURSIVE trapz(_, _, _)
trapz(y, dx, j) ==
  IF j = 0 THEN Rat(0)
  ELSE FAdd(trapz(y, dx, j - 1), FDiv(FMul(dx, FAdd(y[j], y[j + 1])), Rat(2)))

\* f_xv * (vax - shift) ** power, a row
RECURSIVE Weighted(_, _, _, _)
Weighted(frow, shift, power, j) ==
  IF j = 0 THEN <<>>
  ELSE Append(Weighted(frow, shift, power, j - 1),
              FMul(frow[j], IF power = 0 THEN Rat(1)
                            ELSE IF power = 1 THEN FSub(vax[j], shift)
                            ELSE FMul(FSub(vax[j], shift), FSub(vax[j], shift))))

Moment(frow, shift, power) == trapz(Weighted(frow, shift, power, NV), dv, NV - 1)

\* (mutant) c built from vax[:-1] instead of vax[1:]
RECURSIVE Diagonal_unshifted(_, _, _, _, _)
Diagonal_unshifted(name, nu_dt, v0t_sq, vbar, j) ==
  IF j = 0 THEN <<>>
  ELSE Append(Diagonal_unshifted(name, nu_dt, v0t_sq, vbar, j - 1),
         IF name = "a"
           THEN FMul(nu_dt, FAdd(FDiv(FNeg(v0t_sq), FMul(dv, dv)),
                                 FDiv(FDiv(FSub(vax[j], vbar), Rat(2)), dv)))
         ELSE IF name = "b"
           THEN FAdd(Rat(1), FMul(nu_dt, FDiv(FMul(Rat(2), v0t_sq), FMul(dv, dv))))
         ELSE FMul(nu_dt, FSub(FDiv(FNeg(v0t_sq), FMul(dv, dv)),
                               FDiv(FDiv(FSub(vax[j], vbar), Rat(2)), dv))))

\* a, b and c of one spatial cell: nu * dt * (-v0t_sq / dv^2 + (vax[:-1] -
\* vbar) / 2 / dv), 1 + nu * dt * 2 v0t_sq / dv^2, nu * dt * (-v0t_sq / dv^2 -
\* (vax[1:] - vbar) / 2 / dv)
RECURSIVE Diagonal(_, _, _, _, _)
Diagonal(name, nu_dt, v0t_sq, vbar, j) ==
  IF j = 0 THEN <<>>
  ELSE Append(Diagonal(name, nu_dt, v0t_sq, vbar, j - 1),
         IF name = "a"
           THEN FMul(nu_dt, FAdd(FDiv(FNeg(v0t_sq), FMul(dv, dv)),
                                 FDiv(FDiv(FSub(vax[j], vbar), Rat(2)), dv)))
         ELSE IF name = "b"
           THEN FAdd(Rat(1), FMul(nu_dt, FDiv(FMul(Rat(2), v0t_sq), FMul(dv, dv))))
         ELSE FMul(nu_dt, FSub(FDiv(FNeg(v0t_sq), FMul(dv, dv)),
                               FDiv(FDiv(FSub(vax[j + 1], vbar), Rat(2)), dv))))

\* make_philharmonic_arrays_for_matrix(f_xv): v0t_sq = trapz(f v^2)
RECURSIVE make_philharmonic_arrays_for_matrix(_, _, _, _)
make_philharmonic_arrays_for_matrix(f_xv, nu_dt, name, ix) ==
  IF ix = 0 THEN <<>>
  ELSE Append(make_philharmonic_arrays_for_matrix(f_xv, nu_dt, name, ix - 1),
              Diagonal(name, nu_dt, Moment(f_xv[ix], Rat(0), 2), Rat(0),
                       IF name = "b" THEN NV ELSE NV - 1))

\* (mutant) the mean velocity of the first cell is used in every cell
RECURSIVE make_dougherty_arrays_for_matrix_first_cell(_, _, _, _)
make_dougherty_arrays_for_matrix_first_cell(f_xv, nu_dt, name, ix) ==
  IF ix = 0 THEN <<>>
  ELSE Append(make_dougherty_arrays_for_matrix_first_cell(f_xv, nu_dt, name, ix - 1),
              Diagonal(name, nu_dt,
                       Moment(f_xv[ix], Moment(f_xv[1], Rat(0), 1), 2),
                       Moment(f_xv[1], Rat(0), 1),
                       IF name = "b" THEN NV ELSE NV - 1))

\* make_dougherty_arrays_for_matrix(f_xv): vbar = trapz(f v), v0t_sq =
\* trapz(f (v - vbar)^2)
RECURSIVE make_dougherty_arrays_for_matrix(_, _, _, _)
make_dougherty_arrays_for_matrix(f_xv, nu_dt, name, ix) ==
  IF ix = 0 THEN <<>>
  ELSE Append(make_dougherty_arrays_for_matrix(f_xv, nu_dt, name, ix - 1),
              Diagonal(name, nu_dt,
                       Moment(f_xv[ix], Moment(f_xv[ix], Rat(0), 1), 2),
                       Moment(f_xv[ix], Rat(0), 1),
                       IF name = "b" THEN NV ELSE NV - 1))

\* get_collision_matrix_for_all_x(f_xv=f), one of cee_a, cee_b, cee_c
get_collision_matrix_for_all_x(operator, f_xv, nu_dt, name) ==
  IF operator = "lb" THEN make_philharmonic_arrays_for_matrix(f_xv, nu_dt, name, NX)
  ELSE make_dougherty_arrays_for_matrix(f_xv, nu_dt, name, NX)

\* solver(cee_a, cee_b, cee_c, f) on the storages 2, 3, 4 and 1, the four
\* arrays being assembled before the call
CollisionSolve(solver, h) ==
  IF Len(h) = 4 /\ solver = "naive" THEN naive_solver(h, 2, 3, 4, 1)
  ELSE batched_tridiag_solver(h, 2, 3, 4, 1)

\* step.py take_collision_step(f), f being storage 1
CollisionStep(operator, solver, f_xv, nu_dt) ==
  CollisionSolve(solver,
    <<f_xv,
      get_collision_matrix_for_all_x(operator, f_xv, nu_dt, "a"),
      get_collision_matrix_for_all_x(operator, f_xv, nu_dt, "b"),
      get_collision_matrix_for_all_x(operator, f_xv, nu_dt, "c")>>)

\* the distributions of one spatial cell, given by their values at the
\* velocities -2 .. 2 (zero elsewhere) and sampled at the cell centres
FOfV(kind, v) ==
  IF kind = "flat" THEN <<1, 4>>
  ELSE IF kind = "peak" THEN (IF v \in {Rat(-1), Rat(0), Rat(1)} THEN <<1, 2>> ELSE Rat(0))
  ELSE IF kind = "tail" THEN (IF v \in {Rat(0), Rat(2)} THEN <<1, 2>> ELSE Rat(0))
  ELSE IF v = Rat(0) THEN <<1, 4>> ELSE IF v = Rat(2) THEN Rat(1) ELSE Rat(0)

RECURSIVE FRow(_, _)
FRow(kind, j) ==
  IF j = 0 THEN <<>> ELSE Append(FRow(kind, j - 1), FOfV(kind, vax[j]))

FKinds == {"peak", "tail", "drift", "flat"}

\* every entry of f is a fraction the next step can be followed from
Representable(f_xv) ==
  \A ix \in 1..NX : \A j \in 1..NV : f_xv[ix][j][2] <= MaxDenominator

RECURSIVE FArray(_, _, _)
FArray(first, others, ix) ==
  IF ix = 0 THEN <<>>
  ELSE Append(FArray(first, others, ix - 1), FRow(IF ix = 1 THEN first ELSE others, NV))

InitCollision ==
  /\ cfg = [name |-> "collision"]
  /\ phase = "collision"
  /\ err = "none"
  /\ built = NoneBuilt
  /\ entry = "none"
  /\ temp_storage = [e |-> <<0, 0>>, f |-> <<0, 0>>, i |-> 0]
  /\ call = [e |-> NoId, f |-> NoId, t |-> Zero, ret_e |-> NoId, ret_f |-> NoId]
  /\ trace = <<>>
  /\ args = [a |-> 0, b |-> 0, c |-> 0, f |-> 0]
  /\ calls = <<>>
  /\ \E first \in FKinds, others \in {"peak", "tail"}, operator \in {"lb", "dg"},
        solver \in {"naive", "batched_tridiagonal"}, nu \in {1, 2} :
       /\ heap = <<FArray(first, others, NX)>>
       /\ inp = [kind |-> "collision", operator |-> operator, solver |-> solver,
                 nu_dt |-> FMul(Rat(nu), Rat(1)), f |-> FArray(first, others, NX)]
  /\ out = [fn |-> "none"]

\* f_out = fp_step(f_out), once more
Collided(r) ==
  /\ r.raised = "none"
  /\ heap' = <<r.heap[r.ret]>>
  /\ out' = [fn |-> "take_collision_step",
             n |-> IF out.fn = "none" THEN 1 ELSE out.n + 1,
             before |-> heap[1],
             ret |-> r.ret,
             arg_after |-> r.heap[1]]

TakeCollisionStep ==
  /\ phase = "collision"
  /\ IF out.fn = "none" THEN TRUE ELSE out.n < MaxCollisions
  /\ Representable(heap[1])
  /\ Collided(CollisionStep(inp.operator, inp.solver, heap[1], inp.nu_dt))
  /\ UNCHANGED <<inp, args, calls, step_vars>>

NextCollision == TakeCollisionStep

SpecCollision == InitCollision /\ [][NextCollision]_vars

\* ================================================ the timestep on grid values
\* The exponential steppers of core/vlasov.py, the field solver of
\* core/field.py, the integrators and the collision step above, on the values
\* of e and f.  The box is 2 pi long and the velocity grid is that of the
\* collision step.  A phase exp(-1j * angle) is followed where its angle is
\* zero (the phase is 1) or where the coefficient it multiplies is zero (the
\* product is 0); elsewhere the angle is no multiple of pi / 6, and the result
\* of the stepper is recorded as not resolved.

Resolved(m) == [known |-> TRUE, val |-> m]

Unresolved == [known |-> FALSE, val |-> <<>>]

\* m[:, j], the first i entries
RECURSIVE ColumnOf(_, _, _)
ColumnOf(m, j, i) ==
  IF i = 0 THEN <<>> ELSE Append(ColumnOf(m, j, i - 1), m[i][j])

RECURSIVE Transpose(_, _)
Transpose(m, j) ==
  IF j = 0 THEN <<>> ELSE Append(Transpose(m, j - 1), ColumnOf(m, j, Len(m)))

\* fft.fft(f, axis=0), held column by column
RECURSIVE FftAxis0(_, _)
FftAxis0(f, iv) ==
  IF iv = 0 THEN <<>>
  ELSE Append(FftAxis0(f, iv - 1), fft(ColumnOf(f, iv, Len(f))))

\* every product np.exp(-1j * k * factor) * X[k] of one transform is known:
\* the factor is zero, or k is, or the coefficient is
ResolvedRow(X, kaxis, factor_zero) ==
  \A k \in 1..Len(X) : factor_zero \/ IsZero(kaxis[k]) \/ X[k] = ZZero

\* np.exp(-1j * kaxis * factor) * X, where every product is known
RECURSIVE Phased(_, _, _, _)
Phased(X, kaxis, factor_zero, k) ==
  IF k = 0 THEN <<>>
  ELSE Append(Phased(X, kaxis, factor_zero, k - 1),
              IF factor_zero \/ IsZero(kaxis[k]) THEN ZMul(ZOne, X[k]) ELSE ZZero)

RECURSIVE VdfdxColumns(_, _, _, _, _)
VdfdxColumns(F, kx, v, dt_zero, iv) ==
  IF iv = 0 THEN <<>>
  ELSE Append(VdfdxColumns(F, kx, v, dt_zero, iv - 1),
              Reals(ifft(Phased(F[iv], kx, dt_zero \/ IsZero(v[iv]), Len(kx))), Len(kx)))

\* core/vlasov.py step_vdfdx_exponential(f, dt): np.real(fft.ifft(np.exp(-1j *
\* kx[:, None] * dt * v) * fft.fft(f, axis=0), axis=0))
step_vdfdx_exponential(kx, v, f, dt_zero) ==
  IF ~f.known THEN Unresolved
  ELSE IF \E iv \in 1..Len(v) :
            ~ResolvedRow(FftAxis0(f.val, Len(v))[iv], kx, dt_zero \/ IsZero(v[iv]))
    THEN Unresolved
  ELSE Resolved(Transpose(VdfdxColumns(FftAxis0(f.val, Len(v)), kx, v, dt_zero, Len(v)),
                          Len(kx)))

RECURSIVE EdfdvRows(_, _, _, _, _)
EdfdvRows(f, kv, e, dt_zero, ix) ==
  IF ix = 0 THEN <<>>
  ELSE Append(EdfdvRows(f, kv, e, dt_zero, ix - 1),
              Reals(ifft(Phased(fft(f[ix]), kv, dt_zero \/ e[ix] = ZZero, Len(kv))), Len(kv)))

\* core/vlasov.py step_edfdv_exponential(f, e, dt): np.real(fft.ifft(np.exp(-1j
\* * kv * dt * e[:, None]) * fft.fft(f, axis=1), axis=1))
step_edfdv_exponential(kv, f, e, dt_zero) ==
  IF ~f.known \/ ~e.known THEN Unresolved
  ELSE IF \E ix \in 1..Len(f.val) :
            ~ResolvedRow(fft(f.val[ix]), kv, dt_zero \/ e.val[ix] = ZZero)
    THEN Unresolved
  ELSE Resolved(EdfdvRows(f.val, kv, e.val, dt_zero, Len(f.val)))

\* np.trapz(y, dx=dx) of grid values
RECURSIVE ZTrapz(_, _, _)
ZTrapz(y, dx, j) ==
  IF j = 0 THEN ZZero
  ELSE ZAdd(ZTrapz(y, dx, j - 1), ZMul(ZOfRat(FDiv(dx, Rat(2))), ZAdd(y[j], y[j + 1])))

\* core/field.py compute_charges(f, dv): np.trapz(f, dx=dv, axis=1)
RECURSIVE compute_charges(_, _, _)
compute_charges(f, dx, ix) ==
  IF ix = 0 THEN <<>>
  ELSE Append(compute_charges(f, dx, ix - 1), ZTrapz(f[ix], dx, Len(f[ix]) - 1))

RECURSIVE AddFields(_, _, _)
AddFields(a, b, ix) ==
  IF ix = 0 THEN <<>> ELSE Append(AddFields(a, b, ix - 1), ZAdd(a[ix], b[ix]))

\* core/field.py solve_total_electric_field(driver_field, f)
solve_total_electric_field(driver_field, f, one_over_kx) ==
  IF ~f.known THEN Unresolved
  ELSE Resolved(AddFields(driver_field,
                          solve_for_field(compute_charges(f.val, dv, Len(f.val)),
                                          one_over_kx).field,
                          Len(driver_field)))

\* the driver of test_landau_damping.py, a0 times a pulse: zero everywhere for
\* a0 = 0, and a field that is non-zero in every cell otherwise
RECURSIVE driver_function(_, _)
driver_function(a0, ix) ==
  IF ix = 0 THEN <<>> ELSE Append(driver_function(a0, ix - 1), ZOfRat(Rat(a0 * ix)))

\* the grid of a run: the box from 0 to 2 pi, and kv = np.fft.fftfreq(v.size,
\* d=dv) * 2.0 * np.pi
Grid(a0) ==
  [kx |-> initialize_spatial_quantities(Rat(0), Rat(2), NX).kx,
   one_over_kx |-> initialize_spatial_quantities(Rat(0), Rat(2), NX).one_over_kx,
   kv |-> Kx(NV, dv, NV),
   driver |-> driver_function(a0, NX)]

\* the value an operation of an integrator returned: the operations of call n
\* are valued in order, vals holding the values of those before en
ValueOf(id, n, vals, given) == IF id[1] = n THEN vals[id[2]] ELSE given

Apply(g, en, n, vals, e0, f0) ==
  IF en.op = "vdfdx"
    THEN step_vdfdx_exponential(g.kx, vax, ValueOf(en.f, n, vals, f0), en.dt = Zero)
  ELSE IF en.op = "edfdv"
    THEN step_edfdv_exponential(g.kv, ValueOf(en.f, n, vals, f0),
                                ValueOf(en.e, n, vals, e0), en.dt = Zero)
  ELSE solve_total_electric_field(g.driver, ValueOf(en.f, n, vals, f0), g.one_over_kx)

Valued(g, en, n, vals, e0, f0) == Append(vals, Apply(g, en, n, vals, e0, f0))

RECURSIVE ValuesOf(_, _, _, _, _, _)
ValuesOf(g, tr, n, e0, f0, i) ==
  IF i = 0 THEN <<>>
  ELSE CHOOSE after \in {Valued(g, tr[i], n, vals, e0, f0) :
                          vals \in {ValuesOf(g, tr, n, e0, f0, i - 1)}} : TRUE

\* exp(-v^2 / 2) at a cell centre, as a short binary fraction
Gaussian(v) ==
  IF v = Rat(0) THEN Rat(1)
  ELSE IF v \in {Rat(-1), Rat(1)} THEN <<1, 2>>
  ELSE IF v \in {Rat(-2), Rat(2)} THEN <<1, 8>>
  ELSE Rat(0)

RECURSIVE GaussianRow(_)
GaussianRow(j) ==
  IF j = 0 THEN <<>> ELSE Append(GaussianRow(j - 1), Gaussian(vax[j]))

RECURSIVE SumRow(_, _)
SumRow(row, j) == IF j = 0 THEN Rat(0) ELSE FAdd(SumRow(row, j - 1), row[j])

RECURSIVE ScaledRow(_, _, _)
ScaledRow(row, by, j) ==
  IF j = 0 THEN <<>> ELSE Append(ScaledRow(row, by, j - 1), ZOfRat(FMul(row[j], by)))

\* core/step.py initialize(nx, nv): every row is the Gaussian, and f = f /
\* np.sum(f[0,]) / dv.  A perturbed start has the density of the first cell
\* raised by a half.
RECURSIVE initialize(_, _)
initialize(shape, ix) ==
  IF ix = 0 THEN <<>>
  ELSE Append(initialize(shape, ix - 1),
              ScaledRow(GaussianRow(NV),
                        FDiv(FDiv(IF shape = "perturbed" /\ ix = 1 THEN <<3, 2>> ELSE Rat(1),
                                  SumRow(GaussianRow(NV), NV)), dv),
                        NV))

RatOfZ(z) == IF z[1] = 0 THEN Rat(0) ELSE <<z[1], z[5]>>

RECURSIVE RatRow(_, _)
RatRow(row, j) == IF j = 0 THEN <<>> ELSE Append(RatRow(row, j - 1), RatOfZ(row[j]))

RECURSIVE RatRows(_, _)
RatRows(f, ix) ==
  IF ix = 0 THEN <<>> ELSE Append(RatRows(f, ix - 1), RatRow(f[ix], Len(f[ix])))

RECURSIVE ZRows(_, _)
ZRows(f, ix) ==
  IF ix = 0 THEN <<>>
  ELSE Append(ZRows(f, ix - 1), ScaledRow(f[ix], Rat(1), Len(f[ix])))

\* the closures of a run: those of a timestep of step.py, or an integrator of
\* get_time_integrator on the exponential steppers and the spectral solver
ClosuresOf(c) ==
  IF c.entry = "get_timestep" THEN get_timestep(c)
  ELSE IF c.entry = "closures" THEN get_step_closures(c)
  ELSE [NoneBuilt EXCEPT !.vdfdx = get_vdfdx(c.vdfdx).fn,
                         !.edfdv = get_edfdv(c.edfdv).fn,
                         !.field_solve = get_field_solver(c.poisson).fn,
                         !.vp_step = get_time_integrator(c.time).fn]

ValueRuns ==
  {[kind |-> "values", entry |-> en, time |-> tm, vdfdx |-> "exponential",
    edfdv |-> "exponential", poisson |-> "spectral", fptype |-> ft, fpsolver |-> fs,
    nu |-> nu, dt |-> dt, a0 |-> a0, shape |-> sh,
    f |-> Resolved(initialize(sh, NX)),
    e |-> solve_total_electric_field(driver_function(a0, NX), Resolved(initialize(sh, NX)),
                                     Grid(a0).one_over_kx)] :
     en \in {"closures", "factories"}, tm \in {"leapfrog", "pefrl"},
     ft \in {"lb", "dg"}, fs \in {"naive", "batched_tridiagonal"}, nu \in {0, 1},
     dt \in 1..MaxDt, a0 \in {0, 1}, sh \in {"uniform", "perturbed"}}

InitValues ==
  /\ cfg = [name |-> "values"]
  /\ phase = "values"
  /\ err = "none"
  /\ built = NoneBuilt
  /\ entry = "none"
  /\ temp_storage = [e |-> <<0, 0>>, f |-> <<0, 0>>, i |-> 0]
  /\ call = [e |-> NoId, f |-> NoId, t |-> Zero, ret_e |-> NoId, ret_f |-> NoId]
  /\ trace = <<>>
  /\ heap = <<>>
  /\ args = [a |-> 0, b |-> 0, c |-> 0, f |-> 0]
  /\ calls = <<>>
  /\ inp \in ValueRuns
  /\ out = [fn |-> "none", n |-> 0, raised |-> "none", e |-> inp.e, f |-> inp.f]

RetOf(r) == r.heap[r.ret]

\* f = fp_step(f=f) on the values
CollidedValues(f, operator, solver, nu_dt) ==
  IF ~f.known THEN Unresolved
  ELSE Resolved(ZRows(RetOf(CollisionStep(operator, solver, RatRows(f.val, NX), nu_dt)), NX))

\* what a call of the integrator left: the exception it raised, or e and f
VpValues(s1, vals, e0, f0) ==
  IF s1.err # "none" THEN [raised |-> s1.err, e |-> e0, f |-> f0]
  ELSE [raised |-> "none", e |-> ValueOf(s1.e, s1.n, vals, e0),
        f |-> ValueOf(s1.f, s1.n, vals, f0)]

\* the largest denominator of an entry of a known f from which a timestep
\* with collisions is followed
MaxValueDenominator == 40

Followable(f) ==
  f.known => \A ix \in 1..NX : \A j \in 1..NV : f.val[ix][j][5] <= MaxValueDenominator

\* step.py timestep(temp_storage, i) on the values
TimestepValues ==
  /\ phase = "values"
  /\ inp.entry = "closures"
  /\ out.raised = "none"
  /\ out.n < MaxSteps
  /\ inp.nu = 0 \/ Followable(out.f)
  /\ \E s1 \in {VpStep(ClosuresOf(inp), inp.dt, StartCall(out.n + 1, <<0, 0>>, <<0, 0>>),
                         TimeAt(out.n, inp.dt))} :
       \E vals \in {ValuesOf(Grid(inp.a0), s1.tr, s1.n, out.e, out.f, Len(s1.tr))} :
         \E r \in {VpValues(s1, vals, out.e, out.f)} :
           out' = IF r.raised # "none"
                    THEN [out EXCEPT !.fn = "timestep", !.raised = r.raised]
                    ELSE [fn |-> "timestep", n |-> out.n + 1, raised |-> "none", e |-> r.e,
                          f |-> CollidedValues(r.f, inp.fptype, inp.fpsolver,
                                               FMul(Rat(inp.nu), Rat(inp.dt)))]
  /\ UNCHANGED <<inp, step_vars, solver_vars>>

\* e, f = vp_step(e=e, f=f, t=t) of an integrator of get_time_integrator, on
\* the values
CallVpStepValues ==
  /\ phase = "values"
  /\ inp.entry = "factories"
  /\ out.raised = "none"
  /\ out.n < MaxSteps
  /\ \E s1 \in {VpStep(ClosuresOf(inp), inp.dt, StartCall(out.n + 1, <<0, 0>>, <<0, 0>>),
                         TimeAt(out.n, inp.dt))} :
       \E vals \in {ValuesOf(Grid(inp.a0), s1.tr, s1.n, out.e, out.f, Len(s1.tr))} :
         \E r \in {VpValues(s1, vals, out.e, out.f)} :
           out' = [fn |-> "vp_step", n |-> out.n + 1, raised |-> r.raised, e |-> r.e,
                   f |-> r.f]
  /\ UNCHANGED <<inp, step_vars, solver_vars>>

NextValues ==
  \/ TimestepValues
  \/ CallVpStepValues

SpecValues == InitValues /\ [][NextValues]_vars

\* ============================================================== the batches
\* manager.py start_run and get_steps_in_loop_according_to_memory, the inner
\* loops of outer_loop.py and inner_loop.py, and step.py timestep.  e and f
\* are the symbolic values of the timestep above; the timesteps of a run are
\* numbered from 1 over all batches, and out.log holds, for every completed
\* timestep, the time it took from time_batch and the e and f it read and
\* wrote.

\* the largest number of timesteps asked for (nt)
MaxNt == 3

\* get_steps_in_loop_according_to_memory: raw is the number of steps the
\* memory allows, int(1e9 * max_GB_for_device / (6 * (mem_f_store +
\* mem_field_store) * 8))
get_steps_in_loop_according_to_memory(raw, nt) ==
  IF raw > nt
    THEN [steps_in_loop |-> nt, n_loops |-> 1, actual_num_steps |-> nt]
    ELSE [steps_in_loop |-> raw, n_loops |-> nt \div raw + 1,
          actual_num_steps |-> (nt \div raw + 1) * raw]

\* the keys of the dictionary get_arrays_for_inner_loop of outer_loop.py
\* returns, and of the one get_arrays_for_time_loop of inner_loop.py returns
get_arrays_for_inner_loop ==
  {"time_batch", "e", "f", "stored_f", "mean_cum_de2_previous", "series", "fields"}

get_arrays_for_time_loop ==
  {"time_batch", "e", "f", "stored_f", "health", "fields"}

\* np.array(stuff_for_time_loop["t"][curr_time_index]) for curr_time_index =
\* np.arange(it, it + steps_in_loop), t = dt * np.arange(overall_num_steps)
RECURSIVE TimeArray(_, _, _)
TimeArray(it, dt, k) ==
  IF k = 0 THEN <<>> ELSE Append(TimeArray(it, dt, k - 1), TimeAt(it + k - 1, dt))

\* (mutant) the time axis of every batch starts at zero
RECURSIVE TimeArray_restarted(_, _, _)
TimeArray_restarted(it, dt, k) ==
  IF k = 0 THEN <<>> ELSE Append(TimeArray_restarted(it, dt, k - 1), TimeAt(k - 1, dt))

Logged(r, s0, s1, s2, t) ==
  [r EXCEPT !.ts.e = s1.e, !.ts.f = s2.f, !.ts.i = @ + 1,
            !.log = Append(@, [t |-> t, e_in |-> s0.e, f_in |-> s0.f,
                               e |-> s1.e, f |-> s2.f])]

\* step.py timestep(temp_storage, i): e, f, t and de are read, vp_step and
\* fp_step run, temp_storage["health"] is read for storage_step, and e and f
\* are written back
OneStepOf(r, b, s0, s1, t) ==
  IF s1.err # "none" THEN [r EXCEPT !.raised = s1.err]
  ELSE IF "health" \notin r.ts.keys THEN [r EXCEPT !.raised = "KeyError"]
  ELSE Logged(r, s0, s1, take_collision_step(s1, b), t)

OneStep(r, b, dt, i) ==
  IF r.raised # "none" THEN r
  ELSE OneStepOf(r, b, StartCall(r.ts.i + 1, r.ts.e, r.ts.f),
                 VpStep(b, dt, StartCall(r.ts.i + 1, r.ts.e, r.ts.f), r.ts.time_batch[i + 1]),
                 r.ts.time_batch[i + 1])

\* for it in range(steps_in_loop): temp_storage, _ = one_step(temp_storage, it)
RECURSIVE InnerSteps(_, _, _, _)
InnerSteps(r, b, dt, n) ==
  IF n = 0 THEN r ELSE OneStep(InnerSteps(r, b, dt, n - 1), b, dt, n - 1)

\* inner_loop(time_array, driver_array, temp_storage) of outer_loop.py and
\* numpy_inner_loop of inner_loop.py: the batch arrays are stored, the steps
\* run, and the update after the loop touches only the series of diagnostics
inner_loop(time_array, ts, log, b, dt, steps_in_loop) ==
  InnerSteps([ts |-> [ts EXCEPT !.time_batch = time_array,
                                !.keys = @ \cup {"driver_array_batch"}],
              log |-> log, raised |-> "none"],
             b, dt, steps_in_loop)

\* storage.py get_batched_data_from_sim_config, called by batch_update
get_batched_data_from_sim_config(r) ==
  IF r.raised # "none" THEN r
  ELSE IF {"stored_e", "stored_f", "time_batch", "driver_array_batch", "health"}
            \subseteq r.ts.keys THEN r
  ELSE [r EXCEPT !.raised = "KeyError"]

BatchRuns ==
  {[kind |-> "batches", module |-> md, caller |-> cl, entry |-> en,
    time |-> tm, vdfdx |-> "exponential", edfdv |-> "exponential",
    poisson |-> "spectral", fptype |-> "lb", fpsolver |-> fs, nu |-> 0, dt |-> dt,
    nt |-> nt, plan |-> get_steps_in_loop_according_to_memory(raw, nt)] :
     md \in {"outer_loop", "inner_loop"}, cl \in {"start_run", "do_inner_loop"},
     en \in {"get_timestep", "closures"},
     tm \in {"leapfrog", "pefrl"}, fs \in {"naive", "batched_tridiagonal"},
     dt \in 1..MaxDt, nt \in 2..MaxNt, raw \in 1..(MaxNt + 1)}

InitBatches ==
  /\ cfg = [name |-> "batches"]
  /\ phase = "set-up"
  /\ err = "none"
  /\ built = NoneBuilt
  /\ entry = "none"
  /\ inp \in BatchRuns
  /\ temp_storage = [e |-> <<0, 0>>, f |-> <<0, 0>>, i |-> 0, loop |-> 0,
                     time_batch |-> <<>>,
                     keys |-> IF inp.module = "outer_loop" THEN get_arrays_for_inner_loop
                              ELSE get_arrays_for_time_loop]
  /\ call = [e |-> NoId, f |-> NoId, t |-> Zero, ret_e |-> NoId, ret_f |-> NoId]
  /\ trace = <<>>
  /\ heap = <<>>
  /\ args = [a |-> 0, b |-> 0, c |-> 0, f |-> 0]
  /\ calls = <<>>
  /\ out = [fn |-> "none", log |-> <<>>, ranges |-> <<>>, updates |-> <<>>]

\* np.arange(it, it + steps_in_loop) of the pass of the loop that starts at it
curr_time_index(it, steps_in_loop) == [first |-> it, stop |-> it + steps_in_loop]

\* the time-index ranges of the passes so far, and for each call of
\* storage_manager.batch_update the number of passes made when it was called
Batched(r, ran) ==
  /\ temp_storage' = [r.ts EXCEPT !.loop = @ + 1]
  /\ out' = [fn |-> "do_inner_loop", log |-> r.log,
             ranges |-> Append(out.ranges,
                               curr_time_index(temp_storage.loop * inp.plan.steps_in_loop,
                                               inp.plan.steps_in_loop)),
             updates |-> IF inp.caller = "start_run" /\ ran.raised = "none"
                           THEN Append(out.updates, temp_storage.loop + 1)
                           ELSE out.updates]
  /\ err' = r.raised
  /\ phase' = IF r.raised = "none" THEN "batches" ELSE "crashed"

\* get_inner_loop_stepper of outer_loop.py and get_numpy_inner_loop_stepper of
\* inner_loop.py: one_step = step.get_timestep(...).  A run whose entry is
\* "closures" is given the timestep over the closures of get_step_closures
\* instead.
GetInnerLoopStepper ==
  /\ phase = "set-up"
  /\ phase' = IF ClosuresOf(inp).raised = "none" THEN "batches" ELSE "failed"
  /\ err' = ClosuresOf(inp).raised
  /\ out' = [fn |-> "get_inner_loop_stepper", log |-> <<>>, ranges |-> <<>>,
             updates |-> <<>>]
  /\ UNCHANGED <<inp, cfg, built, entry, temp_storage, call, trace, solver_vars>>

\* one pass of the loop of start_run: the slices of the time and driver
\* arrays, do_inner_loop, and (in start_run) storage_manager.batch_update
DoInnerLoop ==
  /\ phase = "batches"
  /\ temp_storage.loop < inp.plan.n_loops
  /\ \E ran \in {inner_loop(TimeArray(temp_storage.loop * inp.plan.steps_in_loop, inp.dt,
                                       inp.plan.steps_in_loop),
                             temp_storage, out.log, ClosuresOf(inp), inp.dt,
                             inp.plan.steps_in_loop)} :
       Batched(IF inp.caller = "start_run" THEN get_batched_data_from_sim_config(ran)
               ELSE ran,
               ran)
  /\ UNCHANGED <<inp, cfg, built, entry, call, trace, solver_vars>>

NextBatches ==
  \/ GetInnerLoopStepper
  \/ DoInnerLoop

SpecBatches == InitBatches /\ [][NextBatches]_vars

\* ========================================================== the diagnostics
\* step.py get_storage_step on the values of f, e and de: the means over x of
\* the velocity integrals written to temp_health_storage at index i.

\* x ** n for a whole number n, as numpy computes it: x ** 0 is 1, and a zero
\* raised to a negative power is inf
RECURSIVE NpPower(_, _)
NpPower(x, n) ==
  IF n = 0 THEN Rat(1)
  ELSE IF n < 0 THEN FDiv(Rat(1), NpPower(x, -n))
  ELSE FMul(x, NpPower(x, n - 1))

\* f ** v ** power of one row, v being the velocity axis (whole numbers on
\* this grid); ** binds to the right, f ** (v ** power)
RECURSIVE PowRow(_, _, _)
PowRow(frow, power, j) ==
  IF j = 0 THEN <<>>
  ELSE Append(PowRow(frow, power, j - 1),
              NpPower(frow[j], IF power = 1 THEN vax[j][1] ELSE vax[j][1] * vax[j][1]))

RECURSIVE SquaredRow(_, _)
SquaredRow(row, j) ==
  IF j = 0 THEN <<>> ELSE Append(SquaredRow(row, j - 1), FMul(row[j], row[j]))

\* np.mean(values, axis=0) of one value per spatial cell
RECURSIVE SumCells(_, _)
SumCells(values, ix) ==
  IF ix = 0 THEN Rat(0) ELSE FAdd(SumCells(values, ix - 1), values[ix])

MeanCells(values) == FDiv(SumCells(values, Len(values)), Rat(Len(values)))

\* np.trapz(rows, dx=dv, axis=1)
RECURSIVE TrapzRows(_, _)
TrapzRows(rows, ix) ==
  IF ix = 0 THEN <<>> ELSE Append(TrapzRows(rows, ix - 1), trapz(rows[ix], dv, NV - 1))

RECURSIVE PowRows(_, _, _)
PowRows(f, power, ix) ==
  IF ix = 0 THEN <<>> ELSE Append(PowRows(f, power, ix - 1), PowRow(f[ix], power, NV))

RECURSIVE SquaredRows(_, _)
SquaredRows(f, ix) ==
  IF ix = 0 THEN <<>> ELSE Append(SquaredRows(f, ix - 1), SquaredRow(f[ix], NV))

\* the entries storage_step writes at index i; the integral of f * log(f) is
\* not followed
HealthAt(e, de, f) ==
  [mean_n |-> MeanCells(TrapzRows(f, NX)),
   mean_v |-> MeanCells(TrapzRows(PowRows(f, 1, NX), NX)),
   mean_T |-> MeanCells(TrapzRows(PowRows(f, 2, NX), NX)),
   mean_e2 |-> MeanCells(SquaredRow(e, NX)),
   mean_de2 |-> MeanCells(SquaredRow(de, NX)),
   mean_f2 |-> MeanCells(TrapzRows(SquaredRows(f, NX), NX)),
   mean_flogf |-> "not followed"]

WithTotals(h) ==
  [mean_n |-> h.mean_n, mean_v |-> h.mean_v, mean_T |-> h.mean_T,
   mean_e2 |-> h.mean_e2, mean_de2 |-> h.mean_de2,
   mean_t_plus_e2_minus_de2 |-> FAdd(h.mean_T, FSub(h.mean_e2, h.mean_de2)),
   mean_t_plus_e2_plus_de2 |-> FAdd(FAdd(h.mean_T, h.mean_e2), h.mean_de2),
   mean_f2 |-> h.mean_f2, mean_flogf |-> h.mean_flogf]

\* storage_step(temp_health_storage, e, de, f, i): every series gets its
\* entry at index i (the first index is 0) and keeps the others
storage_step_values(temp_health_storage, e, de, f, i) ==
  [temp_health_storage EXCEPT ![i + 1] = WithTotals(HealthAt(e, de, f))]

EmptyHealth ==
  [mean_n |-> Rat(0), mean_v |-> Rat(0), mean_T |-> Rat(0), mean_e2 |-> Rat(0),
   mean_de2 |-> Rat(0), mean_t_plus_e2_minus_de2 |-> Rat(0),
   mean_t_plus_e2_plus_de2 |-> Rat(0), mean_f2 |-> Rat(0), mean_flogf |-> "zero"]

\* the fields of the spatial cells: the cell's number times an amplitude
RECURSIVE CellFields(_, _)
CellFields(amp, ix) ==
  IF ix = 0 THEN <<>> ELSE Append(CellFields(amp, ix - 1), Rat(amp * ix))

InitStorage ==
  /\ cfg = [name |-> "storage"]
  /\ phase = "storage"
  /\ err = "none"
  /\ built = NoneBuilt
  /\ entry = "none"
  /\ temp_storage = [e |-> <<0, 0>>, f |-> <<0, 0>>, i |-> 0]
  /\ call = [e |-> NoId, f |-> NoId, t |-> Zero, ret_e |-> NoId, ret_f |-> NoId]
  /\ trace = <<>>
  /\ heap = <<>>
  /\ args = [a |-> 0, b |-> 0, c |-> 0, f |-> 0]
  /\ calls = <<>>
  /\ \E first \in FKinds, others \in FKinds, ea \in 0..MaxAmp, da \in 0..MaxAmp :
       inp = [kind |-> "storage", f |-> FArray(first, others, NX),
              e |-> CellFields(ea, NX), de |-> CellFields(da, NX)]
  /\ out = [fn |-> "none", i |-> 0, health |-> [k \in 1..MaxSteps |-> EmptyHealth]]

\* temp_storage["health"] = storage_step(temp_storage["health"], e, de, f, i)
StorageStep ==
  /\ phase = "storage"
  /\ out.i < MaxSteps
  /\ out' = [fn |-> "storage_step", i |-> out.i + 1,
             health |-> storage_step_values(out.health, inp.e, inp.de, inp.f, out.i)]
  /\ UNCHANGED <<inp, step_vars, solver_vars>>

NextStorage == StorageStep

SpecStorage == InitStorage /\ [][NextStorage]_vars

\* ============================================= the semi-Lagrangian e df/dv
\* vlasov.py get_edfdv_sl on the values of f and e.  The splines interpolate:
\* at a knot they return the value stored there, so a foot vm - em * dt that
\* is a knot of the padded velocity grid gets the value of f_pad at that knot,
\* and e_fit(xm) is e at the cell.  A foot between two knots or outside the
\* padded grid is not followed.  (The cubic fit of e needs four spatial cells;
\* the cells of this grid stand for those of a longer one.)

\* vlasov.py _get_padded_grid_(ax): ax_pad[0] = ax[0] - (ax[2] - ax[1]),
\* ax_pad[1:-1] = ax, ax_pad[-1] = ax[-1] + (ax[2] - ax[1])
_get_padded_grid_(ax) ==
  <<FSub(ax[1], FSub(ax[3], ax[2]))>> \o ax \o <<FAdd(ax[Len(ax)], FSub(ax[3], ax[2]))>>

\* (mutant) the ghost cells keep the zeros f_pad was created with
PaddedRow_open(frow) == <<Rat(0)>> \o frow \o <<Rat(0)>>

\* f_pad[:, 1:-1] = f, f_pad[:, 0] = f[:, -1], f_pad[:, -1] = f[:, 0], one row
PaddedRow(frow) == <<frow[Len(frow)]>> \o frow \o <<frow[1]>>

RECURSIVE PaddedRows(_, _)
PaddedRows(f, ix) ==
  IF ix = 0 THEN <<>> ELSE Append(PaddedRows(f, ix - 1), PaddedRow(f[ix]))

\* the knots of the padded grid at which a foot lies (none or one)
KnotsAt(v_pad, foot) == {m \in 1..Len(v_pad) : NumEq(v_pad[m], foot)}

\* f_interpolator(xm, vm - em * dt) at one cell and one velocity
Interpolated(v_pad, padrow, foot) ==
  IF KnotsAt(v_pad, foot) = {} THEN "not followed"
  ELSE padrow[CHOOSE m \in KnotsAt(v_pad, foot) : TRUE]

RECURSIVE InterpolatedRow(_, _, _, _)
InterpolatedRow(v_pad, padrow, shift, j) ==
  IF j = 0 THEN <<>>
  ELSE Append(InterpolatedRow(v_pad, padrow, shift, j - 1),
              Interpolated(v_pad, padrow, FSub(vax[j], shift)))

RECURSIVE InterpolatedRows(_, _, _, _, _)
InterpolatedRows(v_pad, f_pad, e, dt, ix) ==
  IF ix = 0 THEN <<>>
  ELSE Append(InterpolatedRows(v_pad, f_pad, e, dt, ix - 1),
              InterpolatedRow(v_pad, f_pad[ix], FMul(e[ix], Rat(dt)), NV))

\* update_velocity_adv_sl(f, e, dt): the padded f and the f it returns
update_velocity_adv_sl(f, e, dt) ==
  [f_pad |-> PaddedRows(f, NX),
   f_out |-> InterpolatedRows(_get_padded_grid_(vax), PaddedRows(f, NX), e, dt, NX)]

\* every entry of f has been followed
Followed(f) == \A ix \in 1..NX : \A j \in 1..NV : f[ix][j] # "not followed"

RECURSIVE SignedFields(_, _)
SignedFields(amp, ix) ==
  IF ix = 0 THEN <<>>
  ELSE Append(SignedFields(amp, ix - 1), Rat(IF ix = 1 THEN amp ELSE -amp))

InitSl ==
  /\ cfg = [name |-> "sl"]
  /\ phase = "sl"
  /\ err = "none"
  /\ built = NoneBuilt
  /\ entry = "none"
  /\ temp_storage = [e |-> <<0, 0>>, f |-> <<0, 0>>, i |-> 0]
  /\ call = [e |-> NoId, f |-> NoId, t |-> Zero, ret_e |-> NoId, ret_f |-> NoId]
  /\ trace = <<>>
  /\ heap = <<>>
  /\ args = [a |-> 0, b |-> 0, c |-> 0, f |-> 0]
  /\ calls = <<>>
  /\ \E first \in FKinds, others \in FKinds, amp \in (-MaxAmp)..MaxAmp, dt \in 1..MaxDt :
       inp = [kind |-> "sl", f |-> FArray(first, others, NX),
              e |-> SignedFields(amp, NX), dt |-> dt]
  /\ out = [fn |-> "none", n |-> 0, f_pad |-> <<>>, f |-> inp.f]

\* f = edfdv(f, e, dt) with the stepper of get_edfdv_sl, once more
UpdateVelocityAdvSl ==
  /\ phase = "sl"
  /\ out.n < MaxSteps
  /\ Followed(out.f)
  /\ out' = [fn |-> "update_velocity_adv_sl", n |-> out.n + 1,
             f_pad |-> update_velocity_adv_sl(out.f, inp.e, inp.dt).f_pad,
             f |-> update_velocity_adv_sl(out.f, inp.e, inp.dt).f_out]
  /\ UNCHANGED <<inp, step_vars, solver_vars>>

NextSl == UpdateVelocityAdvSl

SpecSl == InitSl /\ [][NextSl]_vars

\* ====================================================== the storage manager
\* storage.py StorageManager.  A directory is the set of its files, each a
\* name and the batch it holds (its number and its time levels); a rule for space is "all-x" or
\* a list ["k0", "k1", ...] of so many Fourier modes.

\* the largest number of calls of batch_update
MaxBatches == 4

\* the largest number of Fourier modes of a rule
MaxModes == 3

\* format(n, "03") + ".nc": at least three decimal digits
RECURSIVE Digits(_)
Digits(n) == IF n < 10 THEN <<n>> ELSE Append(Digits(n \div 10), n % 10)

Format03(n) ==
  IF n < 10 THEN <<0, 0, n>> ELSE IF n < 100 THEN <<0>> \o Digits(n) ELSE Digits(n)

\* to_netcdf(path): the file is created, or replaced when it exists
ToNetcdf(dir, name, batch) ==
  {fl \in dir : fl.name # name} \cup {[name |-> name, batch |-> batch]}

\* the keys of the dictionaries batch_update is given
SimConfigs ==
  [complete |-> {"stored_e", "stored_f", "time_batch", "driver_array_batch", "health"},
   outer_loop |-> get_arrays_for_inner_loop \cup {"driver_array_batch"},
   time_loop |-> get_arrays_for_time_loop \cup {"driver_array_batch"}]

\* the length of the dictionary rules_to_store_f: its keys are space and time
RulesLen == 2

\* xr.DataArray(data=self.dist_store[...], coords=f_coords): the coordinate of
\* the second axis has to be as long as the axis
FCoordsFit(space) == space.form = "all-x" \/ space.modes = RulesLen

\* write_f_batch: self.f_store_index under the rule for time
f_store_index_of(time, stored, index) ==
  IF time = "first-last" THEN (IF stored = 0 THEN 0 ELSE 999)
  ELSE IF stored = 0 THEN 0 ELSE index + 1

\* write_f_batch
write_f_batch(self, rules, batch) ==
  IF ~FCoordsFit(rules.space) THEN [self EXCEPT !.raised = "ValueError"]
  ELSE IF rules.time \notin {"first-last", "all"}
    THEN [self EXCEPT !.raised = "NotImplementedError"]
  ELSE [self EXCEPT
          !.f_store_index = f_store_index_of(rules.time, self.stored, @),
          !.distribution =
             ToNetcdf(@, Format03(f_store_index_of(rules.time, self.stored,
                                                   self.f_store_index)), batch)]

\* write_field_batch for the driver and for e, then write_f_batch
batched_write_to_file(self, rules, batch) ==
  write_f_batch([self EXCEPT !.driver = ToNetcdf(@, Format03(self.stored), batch),
                             !.e = ToNetcdf(@, Format03(self.stored), batch)],
                rules, batch)

Stored(self) == IF self.raised = "none" THEN [self EXCEPT !.stored = @ + 1] ELSE self

\* batch_update(sim_config), sim_config holding the arrays of batch
batch_update(self, rules, keys, batch) ==
  IF ~(SimConfigs.complete \subseteq keys) THEN [self EXCEPT !.raised = "KeyError"]
  ELSE Stored(batched_write_to_file(self, rules, batch))

InitStorageManager ==
  /\ cfg = [name |-> "storage manager"]
  /\ phase = "storage manager"
  /\ err = "none"
  /\ built = NoneBuilt
  /\ entry = "none"
  /\ temp_storage = [e |-> <<0, 0>>, f |-> <<0, 0>>, i |-> 0]
  /\ call = [e |-> NoId, f |-> NoId, t |-> Zero, ret_e |-> NoId, ret_f |-> NoId]
  /\ trace = <<>>
  /\ heap = <<>>
  /\ args = [a |-> 0, b |-> 0, c |-> 0, f |-> 0]
  /\ calls = <<>>
  /\ \E space \in {[form |-> "all-x", modes |-> 0]}
                    \cup {[form |-> "k0", modes |-> m] : m \in 1..MaxModes},
        time \in {"first-last", "all", "last"},
        sim_config \in {"complete", "outer_loop", "time_loop"}, steps \in 1..MaxSteps :
       inp = [kind |-> "storage manager",
              rules |-> [space |-> space, time |-> time],
              sim_config |-> sim_config, num_steps_in_one_loop |-> steps]
  /\ out = [fn |-> "__init__", n |-> 0, stored |-> 0, f_store_index |-> -1,
            e |-> {}, driver |-> {}, distribution |-> {}, raised |-> "none"]

\* storage_manager.batch_update(sim_config), once more
BatchUpdate ==
  /\ phase = "storage manager"
  /\ out.raised = "none"
  /\ out.n < MaxBatches
  /\ out' = [batch_update(out, inp.rules, SimConfigs[inp.sim_config],
                          [number |-> out.n + 1, times |-> inp.num_steps_in_one_loop])
               EXCEPT !.fn = "batch_update", !.n = out.n + 1]
  /\ UNCHANGED <<inp, step_vars, solver_vars>>

NextStorageManager == BatchUpdate

SpecStorageManager == InitStorageManager /\ [][NextStorageManager]_vars

\* ===================================================================== claims
\* the advection sub-steps of a trace, and its integrator operations
AdvOf(tr) == SelectSeq(tr, LAMBDA en : en.op \in {"vdfdx", "edfdv"})

VpOf(tr) == SelectSeq(tr, LAMBDA en : en.op \in {"vdfdx", "edfdv", "field_solve"})

\* a timestep has completed and trace holds what it executed
StepDone == phase = "ready" /\ trace # <<>>

LeapfrogBuilt ==
  built.vp_step \in {"vlasov_poisson.full_leapfrog_ps_step", "step.full_leapfrog_ps_step"}

\* the names of the configuration surface of the specification
DocTime == {"leapfrog", "pefrl", "h-sixth"}

DocVdfdx == {"exponential", "sl"}

DocEdfdv == {"exponential", "cd2", "sl", "lw5"}

DocPoisson == {"spectral"}

DocFpType == {"lb", "dg", "none"}

DocFpSolver == {"naive", "batched_tridiagonal"}

C1_Unrecognised ==
  \/ cfg.time \notin DocTime
  \/ cfg.vdfdx \notin DocVdfdx
  \/ cfg.edfdv \notin DocEdfdv
  \/ cfg.poisson \notin DocPoisson
  \/ cfg.fptype \notin DocFpType
  \/ cfg.fpsolver \notin DocFpSolver

\* C1: whenever get_timestep was called with a configuration in which some
\* option holds an unrecognised name, it raised NotImplementedError, returned
\* no timestep function, and no sub-step has been executed; and a set-up that
\* failed never executes a sub-step and fails with no other exception.
C1_FailFast ==
  /\ (entry = "get_timestep" /\ C1_Unrecognised) =>
       /\ phase = "failed"
       /\ err = "NotImplementedError"
       /\ built = NoneBuilt
       /\ trace = <<>>
       /\ temp_storage.i = 0
  /\ (entry = "get_timestep" /\ phase = "failed") =>
       /\ err = "NotImplementedError"
       /\ trace = <<>>
       /\ temp_storage.i = 0

C2_Impl(name) ==
  CASE name = "leapfrog" -> {"vlasov_poisson.full_leapfrog_ps_step", "step.full_leapfrog_ps_step"}
    [] name = "pefrl" -> {"vlasov_poisson.full_pefrl_ps_step", "step.full_pefrl_ps_step"}
    [] name = "h-sixth" -> {"vlasov_poisson.sixth_order_step"}
    [] name = "exponential" -> {"step_vdfdx_exponential", "step_edfdv_exponential"}
    [] name = "sl" -> {"update_spatial_adv_sl", "update_velocity_adv_sl"}
    [] name = "cd2" -> {"step_edfdv_center_difference"}
    [] OTHER -> {}

\* C2: set-up (get_timestep) of a configuration naming the integrator
\* leapfrog, pefrl or h-sixth, the spatial advection exponential or sl and the
\* velocity advection exponential, cd2 or sl (the other options valid)
\* succeeds and has built the stepping functions of exactly those methods.
C2_SelectionByName ==
  ( /\ entry = "get_timestep"
    /\ cfg.time \in {"leapfrog", "pefrl", "h-sixth"}
    /\ cfg.vdfdx \in {"exponential", "sl"}
    /\ cfg.edfdv \in {"exponential", "cd2", "sl"}
    /\ cfg.poisson = "spectral"
    /\ cfg.fptype \in {"lb", "dg"}
    /\ cfg.fpsolver \in {"naive", "batched_tridiagonal"} ) =>
      /\ phase # "failed"
      /\ built.vp_step \in C2_Impl(cfg.time)
      /\ built.vdfdx \in C2_Impl(cfg.vdfdx)
      /\ built.edfdv \in C2_Impl(cfg.edfdv)

\* C3: with collision frequency nu = 0 the collision step built by
\* get_collision_step is the identity: a timestep executes no coefficient assembly
\* and no linear solve, and f goes from the integrator to the diagnostics as
\* it is.
C3_NuZeroIdentity ==
  (entry = "closures" /\ cfg.nu = 0 /\ StepDone) =>
      /\ \A k \in 1..Len(trace) : trace[k].op \notin {"make_arrays", "solve"}
      /\ temp_storage.f = call.ret_f

C7_DocstringSequence ==
  (StepDone /\ LeapfrogBuilt) =>
    LET vp == VpOf(trace)
        d  == IntToNum(cfg.dt)
    IN  /\ Len(vp) = 4
        /\ vp[1].op = "vdfdx" /\ Plus(vp[1].dt, vp[1].dt) = d
        /\ vp[2].op = "field_solve"
        /\ vp[3].op = "edfdv" /\ vp[3].dt = d
        /\ vp[4].op = "vdfdx" /\ Plus(vp[4].dt, vp[4].dt) = d

C8_X(dt) ==
  <<Scale(dt, xsi), Scale(dt, chi),
    Scale(dt, Minus(One, Scale(2, Plus(chi, xsi)))), Scale(dt, chi), Scale(dt, xsi)>>

C8_V(dt) ==
  <<Scale(dt, Half(Minus(One, Scale(2, lambd)))), Scale(dt, lambd),
    Scale(dt, lambd), Scale(dt, Half(Minus(One, Scale(2, lambd))))>>

RECURSIVE C8_SumTo(_, _)
C8_SumTo(X, j) == IF j = 0 THEN Zero ELSE Plus(C8_SumTo(X, j - 1), X[j])

\* C8: a completed PEFRL step (vlasov_poisson.py) executed x1 v1 x2 v2 x3 v3
\* x4 v4 x5 with the spatial durations (xi, chi, 1-2(chi+xi), chi, xi) dt and
\* the velocity durations ((1-2 lambda)/2, lambda, lambda, (1-2 lambda)/2) dt;
\* each spatial sub-step is followed at once by a field solve on its result
\* with the driver at t plus the spatial durations so far, the velocity
\* sub-step after it uses that field, and the last solve is at t + dt.
C8_PefrlSequence ==
  (StepDone /\ built.vp_step = "vlasov_poisson.full_pefrl_ps_step") =>
    LET n  == temp_storage.i
        vp == VpOf(trace)
        X  == C8_X(cfg.dt)
        V  == C8_V(cfg.dt)
    IN  /\ Len(vp) = 14
        /\ \A j \in 1..5 :
             /\ vp[3 * j - 2].op = "vdfdx"
             /\ vp[3 * j - 2].dt = X[j]
             /\ vp[3 * j - 1].op = "field_solve"
             /\ vp[3 * j - 1].f = <<n, 3 * j - 2>>
             /\ vp[3 * j - 1].t = Plus(call.t, C8_SumTo(X, j))
        /\ \A j \in 1..4 :
             /\ vp[3 * j].op = "edfdv"
             /\ vp[3 * j].dt = V[j]
             /\ vp[3 * j].f = <<n, 3 * j - 2>>
             /\ vp[3 * j].e = <<n, 3 * j - 1>>
        /\ vp[14].t = Plus(call.t, IntToNum(cfg.dt))
        /\ call.ret_e = <<n, 14>>
        /\ call.ret_f = <<n, 13>>

C8_Witness ==
  /\ StepDone
  /\ built.vp_step = "vlasov_poisson.full_pefrl_ps_step"
  /\ temp_storage.i = 2
  /\ cfg.dt = 2
  /\ Len(trace) = 14

\* the advection sub-steps are symmetric about the centre, in kind and in
\* coefficient
C9_Symmetric(adv) ==
  \A k \in 1..Len(adv) :
     /\ adv[k].op = adv[Len(adv) + 1 - k].op
     /\ adv[k].dt = adv[Len(adv) + 1 - k].dt

C9_Alternating(adv) == \A k \in 1..(Len(adv) - 1) : adv[k].op # adv[k + 1].op

\* C9 (as stated): a completed h-sixth step executed seven alternating
\* velocity/position sub-steps, symmetric about the centre.
C9_SevenSymmetric ==
  (StepDone /\ built.vp_step = "vlasov_poisson.sixth_order_step") =>
      /\ Len(AdvOf(trace)) = 7
      /\ C9_Alternating(AdvOf(trace))
      /\ C9_Symmetric(AdvOf(trace))

\* C9 (amended): a completed h-sixth step executed eleven alternating
\* sub-steps, six velocity and five position ones, beginning and ending with
\* a velocity sub-step, and the k-th from the start has the kind and the
\* coefficient of the k-th from the end.
C9_ElevenSymmetric ==
  (StepDone /\ built.vp_step = "vlasov_poisson.sixth_order_step") =>
      /\ Len(AdvOf(trace)) = 11
      /\ Len(SelectSeq(trace, LAMBDA en : en.op = "edfdv")) = 6
      /\ Len(SelectSeq(trace, LAMBDA en : en.op = "vdfdx")) = 5
      /\ AdvOf(trace)[1].op = "edfdv"
      /\ C9_Alternating(AdvOf(trace))
      /\ C9_Symmetric(AdvOf(trace))

C9_Witness ==
  /\ StepDone
  /\ built.vp_step = "vlasov_poisson.sixth_order_step"
  /\ cfg.dt = 2
  /\ Len(trace) = 16
  /\ AdvOf(trace)[1].dt # AdvOf(trace)[3].dt

RECURSIVE C10_SpatialSum(_, _)
C10_SpatialSum(tr, k) ==
  IF k = 0 THEN Zero
  ELSE IF tr[k].op = "vdfdx" THEN Plus(C10_SpatialSum(tr, k - 1), tr[k].dt)
  ELSE C10_SpatialSum(tr, k - 1)

\* C10: the durations of the spatial-advection sub-steps of a completed step
\* of any integrator sum to exactly dt.
C10_SpatialDurationsSumToDt ==
  StepDone => C10_SpatialSum(trace, Len(trace)) = IntToNum(cfg.dt)

\* a completed step of each of the three integrators of vlasov_poisson.py
C10_Witness ==
  /\ StepDone
  /\ built.vp_step \in {"vlasov_poisson.full_pefrl_ps_step",
                        "vlasov_poisson.sixth_order_step"}
  /\ Len(SelectSeq(trace, LAMBDA en : en.op = "vdfdx")) = 5
  /\ C10_SpatialSum(trace, Len(trace)) = IntToNum(cfg.dt)

\* C4: every call of the batched solver left a, b, c and f holding the values
\* they held before the call, and returned a storage that is none of theirs.
C4_BatchedLeavesArguments ==
  \A k \in 1..Len(calls) :
     calls[k].solver = "batched" =>
        /\ calls[k].raised = "none"
        /\ calls[k].after = calls[k].before
        /\ calls[k].ret \notin {args.a, args.b, args.c, args.f}

\* a batched call whose elimination and substitution wrote values that differ
\* from those of b and f
C4_Witness ==
  \E k \in 1..Len(calls) :
     /\ calls[k].solver = "batched"
     /\ calls[k].x # calls[k].before.b
     /\ calls[k].x # calls[k].before.f
     /\ heap[args.b] = calls[k].before.b
     /\ heap[calls[k].ret] = calls[k].x

\* the pivots of the forward elimination of one spatial cell
RECURSIVE C5_Pivot(_, _, _, _)
C5_Pivot(av, bv, cv, i) ==
  IF i = 1 THEN bv[1]
  ELSE FSub(bv[i], FMul(FDiv(av[i - 1], C5_Pivot(av, bv, cv, i - 1)), cv[i - 1]))

C5_NoZeroPivot(in) ==
  \A ix \in 1..NX : \A i \in 1..NV : ~IsZero(C5_Pivot(in.a[ix], in.b[ix], in.c[ix], i))

\* a[i-1] x[i-1] + b[i] x[i] + c[i] x[i+1] = f[i] in every cell
C5_Solves(in, x) ==
  \A ix \in 1..NX : \A i \in 1..NV :
     NumEq(FAdd(FAdd(IF i > 1 THEN FMul(in.a[ix][i - 1], x[ix][i - 1]) ELSE Rat(0),
                     FMul(in.b[ix][i], x[ix][i])),
                IF i < NV THEN FMul(in.c[ix][i], x[ix][i + 1]) ELSE Rat(0)),
           in.f[ix][i])

C5_SameInput(j, k) ==
  /\ calls[j].solver = "batched"
  /\ calls[k].solver = "naive"
  /\ calls[j].before = calls[k].before

\* C5: when the batched and the naive solver were called with the same (a, b,
\* c, f) and the forward elimination meets no zero pivot in any cell, neither
\* raised, their results are equal entry by entry, and the result x satisfies
\* a[i-1] x[i-1] + b[i] x[i] + c[i] x[i+1] = f[i] for every i in every cell.
C5_SolversAgree ==
  \A j \in 1..Len(calls) : \A k \in 1..Len(calls) :
     (C5_SameInput(j, k) /\ C5_NoZeroPivot(calls[j].before)) =>
        /\ calls[j].raised = "none"
        /\ calls[k].raised = "none"
        /\ \A ix \in 1..NX : \A i \in 1..NV : NumEq(calls[j].x[ix][i], calls[k].x[ix][i])
        /\ C5_Solves(calls[j].before, calls[j].x)
        /\ C5_Solves(calls[k].before, calls[k].x)

\* both solvers called with the same non-singular input whose solution has a
\* fractional entry and needs the sub- and the super-diagonal
C5_Witness ==
  \E j \in 1..Len(calls) : \E k \in 1..Len(calls) :
     /\ C5_SameInput(j, k)
     /\ C5_NoZeroPivot(calls[j].before)
     /\ calls[j].x[1][1][2] > 1
     /\ ~IsZero(calls[j].before.c[1][1])
     /\ calls[j].x # calls[j].before.f

\* C11: in every integrator, every field solve of a completed step called at
\* time t took the driver at t plus the durations of the spatial-advection
\* sub-steps executed before it in that step, and the last field solve took
\* the driver at t + dt.
C11_DriverAtAdvancedTime ==
  StepDone =>
    LET vp == VpOf(trace)
    IN  /\ \A k \in 1..Len(vp) :
             vp[k].op = "field_solve" => vp[k].t = Plus(call.t, C10_SpatialSum(vp, k))
        /\ vp[Len(vp)].op = "field_solve" =>
             vp[Len(vp)].t = Plus(call.t, IntToNum(cfg.dt))

\* C12: a completed timestep executed, in this order: the operations of the
\* integrator; the collision step (one assembly, one solve) once, on the f the
\* integrator returned; the diagnostics, from the f the collision step
\* returned and the integrator's e; and last the write-back of that e and f,
\* which are the state of the next timestep.
C12_TimestepOrder ==
  (entry = "closures" /\ StepDone) =>
    LET n == temp_storage.i
        m == Len(VpOf(trace))
    IN  /\ Len(trace) = m + 5
        /\ SubSeq(trace, 1, m) = VpOf(trace)
        /\ trace[m + 1] = Entry("make_arrays", built.matrix_maker, call.ret_f, NoId, Zero, Zero)
        /\ trace[m + 2] = Entry("solve", built.solver, call.ret_f, NoId, Zero, Zero)
        /\ Len(SelectSeq(trace, LAMBDA en : en.op = "solve")) = 1
        /\ trace[m + 3] = Entry("storage_step", "storage_step", <<n, m + 2>>, call.ret_e,
                                Zero, IntToNum(n - 1))
        /\ trace[m + 4] = Entry("write_e", "temp_storage", NoId, call.ret_e, Zero, Zero)
        /\ trace[m + 5] = Entry("write_f", "temp_storage", <<n, m + 2>>, NoId, Zero, Zero)
        /\ temp_storage.e = call.ret_e
        /\ temp_storage.f = <<n, m + 2>>

\* the second timestep of a run
C12_Witness ==
  /\ entry = "closures"
  /\ StepDone
  /\ temp_storage.i = 2
  /\ Len(trace) = 9
  /\ trace[7].op = "storage_step"

\* the terms the superposition of all descriptors adds: for every key, in
\* order, that descriptor's envelope times its wave, a zero envelope adding
\* nothing
RECURSIVE C13_Superposition(_, _, _)
C13_Superposition(pd, tt, n) ==
  IF n = 0 THEN <<>>
  ELSE IF IsZero(get_pulse_coefficient(pd[n], tt)) THEN C13_Superposition(pd, tt, n - 1)
  ELSE Append(C13_Superposition(pd, tt, n - 1),
              Term(get_pulse_coefficient(pd[n], tt), pd[n].k0, pd[n].w0, "cos"))

\* C13: the field driver_function(t) returns is the sum over every descriptor
\* of the dictionary of that descriptor's envelope at t times its travelling
\* wave at (k0, w0): every descriptor whose envelope is not zero at t has
\* its term in the result.
C13_DriverSuperposes ==
  /\ out.fn = "core.field_driver.driver_function" =>
       out.value = C13_Superposition(inp.pulse_dictionary, inp.current_time,
                                     Len(inp.pulse_dictionary))
  /\ out.fn = "field_driver.driver_function" =>
       /\ Len(out.value) = Len(inp.pulse_dictionary)
       /\ \A n \in 1..Len(out.value) :
            /\ out.value[n].kk = inp.pulse_dictionary[n].k0
            /\ out.value[n].ww = inp.pulse_dictionary[n].w0

\* the phase times of a descriptor
C14_R(d) == Rat(d.start_time + d.rise_time)

C14_F(d) == Rat(d.start_time + d.rise_time + d.flat_time)

C14_E(d) == Rat(d.start_time + d.rise_time + d.flat_time + d.fall_time)

C14_LessEq(x, y) == ~FLess(y, x)

C14_Poly(s) ==
  FAdd(FSub(FMul(Rat(6), FMul(s, FMul(s, FMul(s, FMul(s, s))))),
            FMul(Rat(15), FMul(s, FMul(s, FMul(s, s))))),
       FMul(Rat(10), FMul(s, FMul(s, s))))

C14_Holds(d, tt, v) ==
  /\ (C14_LessEq(tt, Rat(d.start_time)) \/ C14_LessEq(C14_E(d), tt)) => IsZero(v)
  /\ ( /\ FLess(Rat(d.start_time), tt) /\ FLess(tt, C14_E(d))
       /\ C14_LessEq(C14_R(d), tt) /\ C14_LessEq(tt, C14_F(d)) ) => NumEq(v, Rat(d.a0))
  /\ ( /\ d.rise_time > 0
       /\ C14_LessEq(Rat(d.start_time), tt) /\ C14_LessEq(tt, C14_R(d))
       /\ FLess(tt, C14_E(d)) ) =>
         NumEq(v, FMul(Rat(d.a0),
                       C14_Poly(FDiv(FSub(tt, Rat(d.start_time)), Rat(d.rise_time)))))
  /\ ( /\ d.fall_time > 0
       /\ C14_LessEq(C14_F(d), tt) /\ C14_LessEq(tt, C14_E(d))
       /\ FLess(Rat(d.start_time), tt) ) =>
         NumEq(v, FMul(Rat(d.a0),
                       FSub(Rat(1), C14_Poly(FDiv(FSub(tt, C14_F(d)), Rat(d.fall_time))))))

RECURSIVE C15_Sum(_, _)
C15_Sum(y, j) == IF j = 0 THEN ZZero ELSE ZAdd(C15_Sum(y, j - 1), y[j])

\* C15: for every nx >= 1 and xmax > xmin, initialize_spatial_quantities
\* returned a finite one_over_kx with one_over_kx[0] = 0 and one_over_kx[i] *
\* kx[i] = 1 for every i >= 1, every kx[i] with i >= 1 being non-zero; the
\* field solve_for_field returned on that grid is finite, and its
\* zero-wavenumber mode (the factor of mode 0, and the sum of the field over
\* the grid) is 0.
C15_ZeroModeForced ==
  /\ out.fn = "initialize_spatial_quantities" =>
       /\ Len(out.value.one_over_kx) = inp.nx
       /\ out.value.one_over_kx[1] = Rat(0)
       /\ \A i \in 1..inp.nx : Finite(out.value.one_over_kx[i])
       /\ \A i \in 2..inp.nx :
            /\ ~IsZero(out.value.kx[i])
            /\ FMul(out.value.one_over_kx[i], out.value.kx[i]) = Rat(1)
  /\ out.fn = "solve_for_field" =>
       /\ out.value.finite
       /\ out.value.modes[1] = ZZero
       /\ C15_Sum(out.value.field, inp.nx) = ZZero

\* a solve on six cells of a charge density whose mean is not zero
C15_Witness ==
  /\ out.fn = "solve_for_field"
  /\ inp.nx = 6
  /\ inp.given = "ramp"
  /\ out.value.finite
  /\ out.value.field[1] # ZZero

\* the closed-form field A cos(m k x) / (m k) - B sin(mp k x) / (mp k)
C16_Closed(form, k, x) ==
  ZAdd(ZMul(ZOfRat(FDiv(Rat(form.A), FMul(Rat(form.m), k))), Cos(Angle(FMul(Rat(form.m), k), x))),
       ZNeg(ZMul(ZOfRat(FDiv(Rat(form.B), FMul(Rat(form.mp), k))),
                 Sin(Angle(FMul(Rat(form.mp), k), x)))))

C16_Resolved(form, nx) ==
  /\ form.A > 0 => 2 * form.m < nx
  /\ form.B > 0 => 2 * form.mp < nx

\* C16: for a net charge density 1 + A sin(m k x) + B cos(mp k x) at
\* wavenumbers the grid resolves (below its Nyquist wavenumber), the field
\* solve_for_field returned is A cos(m k x) / (m k) - B sin(mp k x) / (mp k)
\* at every grid point: the constant part contributes nothing.
C16_ClosedForm ==
  (out.fn = "solve_for_field" /\ inp.given = "modes" /\ C16_Resolved(inp.form, inp.nx)) =>
    /\ out.value.finite
    /\ \A j \in 1..inp.nx :
         out.value.field[j] =
           C16_Closed(inp.form, FDiv(Rat(2), inp.xmax),
                      initialize_spatial_quantities(inp.xmin, inp.xmax, inp.nx).x[j])

\* the third case of the test: one sine and one cosine at two wavenumbers
C16_Witness ==
  /\ out.fn = "solve_for_field"
  /\ inp.given = "modes"
  /\ inp.nx = 6 /\ inp.xmax = Rat(8)
  /\ inp.form.A = 1 /\ inp.form.m = 2 /\ inp.form.B = 1 /\ inp.form.mp = 1
  /\ out.value.finite
  /\ out.value.field[1] # ZZero

C17_Density(f_xv, ix) == Moment(f_xv[ix], Rat(0), 0)

\* |x| <= 10^-6
C17_Within(x) == ~IsNaN(x) /\ ~IsInf(x) /\ Abs(x[1]) <= x[2] \div 1000000

\* the first moment of f and the diffusion coefficient the step was built from
C17_Drift(operator, frow) == IF operator = "lb" THEN Rat(0) ELSE Moment(frow, Rat(0), 1)

C17_Spread(operator, frow) == Moment(frow, C17_Drift(operator, frow), 2)

RECURSIVE C17_Sum(_, _)
C17_Sum(row, j) == IF j = 0 THEN Rat(0) ELSE FAdd(C17_Sum(row, j - 1), row[j])

\* nu dt ((D / dv^2 + (v[0] - u) / 2 dv) f'[0] + (D / dv^2 - (v[-1] - u) / 2 dv) f'[-1])
C17_Outflow(nu_dt, D, u, after) ==
  FMul(nu_dt,
       FAdd(FMul(FAdd(FDiv(D, FMul(dv, dv)), FDiv(FDiv(FSub(vax[1], u), Rat(2)), dv)), after[1]),
            FMul(FSub(FDiv(D, FMul(dv, dv)), FDiv(FDiv(FSub(vax[NV], u), Rat(2)), dv)), after[NV])))

C18_MomentumConserved ==
  (out.fn = "take_collision_step" /\ inp.operator = "dg") =>
    \A ix \in 1..NX :
      ~IsZero(Moment(inp.f[ix], Rat(0), 1)) =>
        C17_Within(FSub(Moment(heap[1][ix], Rat(0), 1), Moment(inp.f[ix], Rat(0), 1)))

\* a run with zero driver amplitude and zero collision frequency from the
\* spatially uniform Maxwellian, after at least one call of its step
C19_ZeroRun ==
  /\ inp.kind = "values"
  /\ inp.a0 = 0
  /\ inp.nu = 0
  /\ inp.shape = "uniform"
  /\ out.fn # "none"

\* C19: with zero driver amplitude and zero collision frequency, from the
\* spatially uniform Maxwellian, every step asked of the run (leapfrog or
\* PEFRL) completes and leaves the field and the distribution equal to their
\* initial values.
C19_ZeroRunUnchanged ==
  C19_ZeroRun => (out.raised = "none" /\ out.e = inp.e /\ out.f = inp.f)

\* the timesteps logged so far are the first ones of the one chain that does
\* not depend on the batches: timestep k took the time (k - 1) dt and the e
\* and f that timestep k - 1 wrote (the initial ones for k = 1), and
\* temp_storage holds what the last one wrote
C20_Chain ==
  /\ Len(out.log) = temp_storage.i
  /\ \A k \in 1..Len(out.log) :
       /\ out.log[k].t = TimeAt(k - 1, inp.dt)
       /\ out.log[k].e_in = (IF k = 1 THEN <<0, 0>> ELSE out.log[k - 1].e)
       /\ out.log[k].f_in = (IF k = 1 THEN <<0, 0>> ELSE out.log[k - 1].f)
  /\ temp_storage.e = (IF out.log = <<>> THEN <<0, 0>> ELSE out.log[Len(out.log)].e)
  /\ temp_storage.f = (IF out.log = <<>> THEN <<0, 0>> ELSE out.log[Len(out.log)].f)

\* C20: for every choice of steps_in_loop, after each batch of a run the n
\* timesteps run so far have been taken, and the (e, f) reached is that of
\* the chain of n timesteps, whatever the batches were.
C20_SameForEveryBatching ==
  (inp.kind = "batches" /\ out.fn # "none") =>
    /\ phase = "batches"
    /\ temp_storage.i = temp_storage.loop * inp.plan.steps_in_loop
    /\ C20_Chain

\* the time level of what a completed timestep hands to storage_step at index
\* i: e is the field of the field solve that produced it, f has been advected
\* in space over the durations of the step, and de and the time coordinate are
\* driver_array_batch[i] and time_batch[i], the driver and the time axis at
\* the same index of dt * arange(nt)
C21_LevelOfE ==
  IF call.ret_e[1] = temp_storage.i THEN trace[call.ret_e[2]].t ELSE call.t

C21_LevelOfF == Plus(call.t, C10_SpatialSum(trace, Len(trace)))

C21_LevelOfDriver == TimeAt(temp_storage.i - 1, cfg.dt)

\* C21: at every index i of a batch, the field and the moments recorded at i,
\* the driver recorded at i and the time coordinate at i belong to the same
\* time level.
C21_SameTimeLevel ==
  (entry = "closures" /\ StepDone) =>
    /\ call.t = C21_LevelOfDriver
    /\ C21_LevelOfE = call.t
    /\ C21_LevelOfF = call.t

\* C22: when the linearized WENO5 velocity advection (edfdv = lw5) is asked
\* for, set-up never ends ready, a set-up that failed failed with
\* NotImplementedError and with no other exception, no lw5 stepper was built
\* and no velocity sub-step was executed.
C22_Lw5NotSupported ==
  cfg.edfdv = "lw5" =>
    /\ phase # "ready"
    /\ phase = "failed" => err = "NotImplementedError"
    /\ built.edfdv = "none"
    /\ \A k \in 1..Len(trace) : trace[k].op # "edfdv"

\* the distribution g with the row of cell ix and, in every other cell, the
\* row of the given kind
RECURSIVE C23_Elsewhere(_, _, _, _)
C23_Elsewhere(g, ix, kind, k) ==
  IF k = 0 THEN <<>>
  ELSE Append(C23_Elsewhere(g, ix, kind, k - 1), IF k = ix THEN g[k] ELSE FRow(kind, NV))

\* the collision step of the run on a distribution that agrees with the one
\* it was called on at cell ix gives, at cell ix, what the run got
C23_SameAt(ix, r) == r.raised = "none" /\ RetOf(r)[ix] = heap[1][ix]

\* C23: for both operators and both solvers, the output of the collision
\* step at a spatial cell is the same for every distribution that agrees with
\* its argument on that cell, whatever the values at the other cells.
C23_CellsIndependent ==
  (inp.kind = "collision" /\ out.fn = "take_collision_step") =>
    \A ix \in 1..NX : \A kind \in FKinds :
      C23_SameAt(ix, CollisionStep(inp.operator, inp.solver,
                                   C23_Elsewhere(out.before, ix, kind, NX), inp.nu_dt))

\* a Dougherty step with the batched solver on a distribution whose cells
\* differ, which changed the cell it is compared at
C23_Witness ==
  /\ inp.kind = "collision"
  /\ out.fn = "take_collision_step"
  /\ inp.operator = "dg"
  /\ inp.solver = "batched_tridiagonal"
  /\ out.before[1] # out.before[2]
  /\ heap[1][1] # out.before[1]
  /\ \E kind \in FKinds : C23_Elsewhere(out.before, 1, kind, NX) # out.before

\* C24: every integrator calls the spatial-advection operator with (f, dt)
\* and the velocity-advection operator with (f, e, dt) in every sub-step: no
\* step of any integrator, over any steppers of the factories, ends with the
\* TypeError of a call that does not match the operator's signature.
C24_SignaturesMatch ==
  (phase \in {"ready", "crashed"} /\ entry \in {"closures", "factories"}) =>
    /\ phase # "crashed"
    /\ err # "TypeError"
    /\ \A k \in 1..Len(trace) :
         /\ trace[k].op = "vdfdx" => (trace[k].f # NoId /\ trace[k].e = NoId)
         /\ trace[k].op = "edfdv" => (trace[k].f # NoId /\ trace[k].e # NoId)

\* the last spatial advection of the step before its operation j (0: none)
RECURSIVE C25_LastVdfdx(_, _)
C25_LastVdfdx(tr, j) ==
  IF j <= 1 THEN 0
  ELSE IF tr[j - 1].op = "vdfdx" THEN j - 1
  ELSE C25_LastVdfdx(tr, j - 1)

\* e was returned by a field solve of step n that was handed the f of the
\* spatial advection m, the last one before operation j
C25_SolvedAfter(id, n, j) ==
  /\ id[1] = n
  /\ id[2] < j
  /\ trace[id[2]].op = "field_solve"
  /\ C25_LastVdfdx(trace, j) > 0
  /\ C25_LastVdfdx(trace, j) < id[2]
  /\ trace[id[2]].f = <<n, C25_LastVdfdx(trace, j)>>

\* e is the field the step was called with, and no spatial advection of the
\* step came before: the field the previous step returned, or for the first
\* step of the run the initial field, which must be a field solve
C25_CarriedOver(id, n, j) ==
  /\ id = call.e
  /\ C25_LastVdfdx(trace, j) = 0
  /\ IF n = 1 THEN get_everything_ready_for_outer_loop.e = "field_solve"
     ELSE id[1] = n - 1

\* C25: the field used by every velocity sub-step of a completed step is the
\* result of a field solve on the distribution as it stood after the most
\* recent spatial advection (for the first velocity sub-step of the run, a
\* field solve of the initial distribution), and the field the step returns
\* is such a field for the next step.
C25_FieldIsFresh ==
  StepDone =>
    /\ \A j \in 1..Len(trace) :
         trace[j].op = "edfdv" =>
           \/ C25_SolvedAfter(trace[j].e, temp_storage.i, j)
           \/ C25_CarriedOver(trace[j].e, temp_storage.i, j)
    /\ C25_SolvedAfter(call.ret_e, temp_storage.i, Len(trace) + 1)

\* the velocity moment of order power of every cell: trapz(f * v^power)
RECURSIVE C26_Moments(_, _, _)
C26_Moments(f, power, ix) ==
  IF ix = 0 THEN <<>>
  ELSE Append(C26_Moments(f, power, ix - 1), Moment(f[ix], Rat(0), power))

\* C26: the value recorded as density at step i is the spatial mean of the
\* trapezoidal velocity integral of f, the one recorded as momentum that of
\* f * v, and the one recorded as energy that of f * v^2.
C26_DiagnosticsAreMoments ==
  (inp.kind = "storage" /\ out.fn = "storage_step") =>
    /\ NumEq(out.health[out.i].mean_n, MeanCells(C26_Moments(inp.f, 0, NX)))
    /\ NumEq(out.health[out.i].mean_v, MeanCells(C26_Moments(inp.f, 1, NX)))
    /\ NumEq(out.health[out.i].mean_T, MeanCells(C26_Moments(inp.f, 2, NX)))

\* C27: the ghost cells the semi-Lagrangian velocity advection adds below the
\* first and above the last velocity cell hold zero for every spatial cell
\* when it interpolates, whatever f holds at the ends of the velocity grid.
C27_GhostCellsZero ==
  (inp.kind = "sl" /\ out.fn = "update_velocity_adv_sl") =>
    \A ix \in 1..NX :
      /\ IsZero(out.f_pad[ix][1])
      /\ IsZero(out.f_pad[ix][NV + 2])

\* C28: every call of the naive solver that returned left in its argument f
\* the solution of the systems given by a, b, c and the f passed in, returned
\* that same storage, and left a, b and c holding what they held before.
C28_NaiveSolvesInPlace ==
  \A k \in 1..Len(calls) :
     (calls[k].solver = "naive" /\ calls[k].raised = "none") =>
        /\ calls[k].ret = args.f
        /\ ~calls[k].fresh
        /\ calls[k].after.f = calls[k].x
        /\ C5_Solves(calls[k].before, calls[k].after.f)
        /\ \A n \in {"a", "b", "c"} : calls[k].after[n] = calls[k].before[n]

\* a naive call that returned and whose solution differs from the f passed in,
\* in the first cell and in another one
C28_Witness ==
  \E k \in 1..Len(calls) :
     /\ calls[k].solver = "naive"
     /\ calls[k].raised = "none"
     /\ \A ix \in 1..NX : calls[k].after.f[ix] # calls[k].before.f[ix]
     /\ heap[args.f] = calls[k].x

\* C28 (the collision step): a collision step with the naive solver returns
\* the storage of the f passed to it, which then holds the returned values.
C28_CollisionStepInPlace ==
  (inp.kind = "collision" /\ out.fn = "take_collision_step" /\ inp.solver = "naive") =>
     /\ out.ret = 1
     /\ out.arg_after = heap[1]

\* the passes made so far took the ranges [0, s), [s, 2 s), ... in this order,
\* each inside the time and driver arrays of length n_loops * s
C29_Ranges ==
  /\ Len(out.ranges) = temp_storage.loop
  /\ Len(out.ranges) <= inp.plan.n_loops
  /\ \A k \in 1..Len(out.ranges) :
       /\ out.ranges[k].first = (k - 1) * inp.plan.steps_in_loop
       /\ out.ranges[k].stop = k * inp.plan.steps_in_loop
       /\ out.ranges[k].first < out.ranges[k].stop
       /\ out.ranges[k].stop <= inp.plan.actual_num_steps
       /\ k > 1 => out.ranges[k].first = out.ranges[k - 1].stop

\* the ranges of a run of n_loops passes contain every index 0 .. nt - 1
C29_Covered ==
  \A i \in 0..(inp.nt - 1) :
     \E k \in 1..inp.plan.n_loops :
        /\ i >= (k - 1) * inp.plan.steps_in_loop
        /\ i < k * inp.plan.steps_in_loop

\* batch_update was called once after each pass made so far
C29_Updates ==
  /\ Len(out.updates) = temp_storage.loop
  /\ \A k \in 1..Len(out.updates) : out.updates[k] = k

\* C29: the outer loop of start_run makes its n_loops passes, none raising:
\* their time-index ranges are taken in increasing order, are disjoint and
\* contiguous, lie inside the time and driver arrays and contain 0 .. nt - 1,
\* and one batch_update follows each pass before the next one starts.
C29_BatchesCoverRun ==
  (inp.kind = "batches" /\ inp.caller = "start_run") =>
    /\ phase \in {"set-up", "batches"}
    /\ C29_Ranges
    /\ C29_Covered
    /\ C29_Updates

\* batch k as batch_update stores it
C30_Batch(k) == [number |-> k, times |-> inp.num_steps_in_one_loop]

\* the files of the individual distribution directory after n calls under the
\* rule first-last: 000.nc with the first batch and, from the second call on,
\* 999.nc with the batch of the last call
C30_FirstLast(n) ==
  IF n = 0 THEN {}
  ELSE IF n = 1 THEN {[name |-> <<0, 0, 0>>, batch |-> C30_Batch(1)]}
  ELSE {[name |-> <<0, 0, 0>>, batch |-> C30_Batch(1)],
        [name |-> <<9, 9, 9>>, batch |-> C30_Batch(n)]}

\* C30: with the rule time = first-last, after n >= 1 calls of batch_update
\* the individual distribution directory holds min(n, 2) files, 000.nc with
\* the first batch and 999.nc with the most recent one, and stored is n.
C30_FirstAndLastKept ==
  (inp.kind = "storage manager" /\ inp.rules.time = "first-last" /\ out.n >= 1) =>
    /\ out.raised = "none"
    /\ out.distribution = C30_FirstLast(out.n)
    /\ Cardinality(out.distribution) = (IF out.n < 2 THEN out.n ELSE 2)
    /\ out.stored = out.n

====
